---- MODULE Spec2Model ----
(***************************************************************************)
(* State-machine model of the SanktaOS kernel substrate:                   *)
(*   - the bitmap physical frame allocator (crates/mm/frame_allocator.rs)  *)
(*   - MemorySpace / MappingArea (crates/mm/memory_space)                  *)
(*   - RawSpinLock / IntrGuard (crates/sync)                               *)
(*   - FDTable (crates/vfs/fd_table.rs)                                    *)
(*   - PipeFile / PipeRingBuffer (crates/vfs/impls/pipe_file.rs)           *)
(* Each subsystem has its own specification (SpecFrame, SpecMem, SpecLock, *)
(* SpecFd, SpecPipe) over the shared variable list; the variables of the   *)
(* other subsystems stay at their initial value.                           *)
(***************************************************************************)
EXTENDS Naturals, Integers, Sequences, FiniteSets, TLC

VARIABLES
    \* ---- frame allocator (FRAME_ALLOCATOR: SpinLock<FrameAllocator>) ----
    total_frames,      \* FrameAllocator.total_frames (0 before init)
    bitmap,            \* set of frame indices whose bit is 1
    allocated_count,   \* FrameAllocator.allocated_count
    last_alloc_hint,   \* FrameAllocator.last_alloc_hint (a word index)
    faLock,            \* the AtomicBool of FRAME_ALLOCATOR's RawSpinLock
    trackers,          \* live FrameTracker / FrameRangeTracker values held by callers
    afCall,            \* the alloc_frames(n) call in progress (global entry point)
    \* ---- memory space ----
    areas,             \* MemorySpace.areas : sequence of MappingArea
    page_table,        \* populated PTEs: function from a set of VPNs to PPNs
    heap_start,        \* MemorySpace.heap_start (<<>> for None, or <<vpn>>)
    \* ---- spin locks and interrupts ----
    lockFlag,          \* RawSpinLock.lock per lock
    intr,              \* per-CPU interrupt-enable state
    guards,            \* live RawSpinLockGuard values
    spin,              \* per CPU: the lock() call that is spinning, or NotSpinning
    \* ---- fd table ----
    files,             \* FDTable.files : sequence of slots (None or a file)
    fd_flags,          \* FDTable.fd_flags
    \* ---- pipe ----
    buffer,            \* PipeRingBuffer.buffer as a sequence of runs <<byte, count>>
    capacity,          \* PipeRingBuffer.capacity
    write_end_count,   \* PipeRingBuffer.write_end_count
    read_end_count,    \* PipeRingBuffer.read_end_count
    ends,              \* the PipeFile endpoints that have not been dropped
    pipeCalls,        \* number of read and write calls made so far (bounds the run)
    \* ---- tmpfs ----
    tmAllocated,       \* TmpfsStats.allocated_pages (the charged page count)
    tmInodes,          \* per file: metadata.size, data (Vec<Option<Arc<FrameTracker>>>), link and handle
    tmOp,              \* per file: the write_at call in progress
    tmWritten,         \* per file: byte positions below size written since they last lay at or beyond EOF
    tmPanicked,        \* a kernel panic was raised inside a tmpfs call
    \* ---- path walk ----
    walk,              \* the vfs_walk call: current dentry, components, i, symlink_depth, result
    \* ---- shared memory ----
    shmPanicked,       \* SharedMemory::new has panicked
    \* ---- find_free_area ----
    ffa,               \* the find_free_area call in progress: its arguments and `current`
    \* ---- TLB batch ----
    tlb,               \* the mapping-area page loop in progress and its TLB batch context
    \* ---- kernel log ----
    klog,              \* LogCore: levels, GlobalLogBuffer indices, the _log calls in progress
    \* ---- ops registries ----
    reg,               \* the two atomics of a registry and the calls in progress
    \* ---- block device file ----
    blk,               \* BlkDeviceFile: device sectors, file offset
    \* ---- log formatting ----
    fmt,               \* the log entry being formatted
    \* ---- TID allocator ----
    tid,               \* TidAllocator.next_tid and the allocate calls in progress
    \* ---- tmpfs inode locks ----
    tml,               \* metadata and data lock of one TmpfsInode, the calls in progress
    \* ---- fd table, concurrent callers ----
    fdc,               \* the dup3 and clone_table calls in progress, per CPU
    \* ---- work queue ----
    wq,                \* GLOBAL_WORK_QUEUE: its lock, the WorkQueue, workers and callers
    \* ---- file-backed areas ----
    fba,               \* the file-backed MappingAreas cut out of one mmap
    \* ---- tmpfs directory ----
    dir,               \* children of one directory and the create / symlink calls in progress
    last               \* the last completed call: its name, inputs, result, pre-state

frameVars == <<total_frames, bitmap, allocated_count, last_alloc_hint, faLock, trackers, afCall>>
memVars   == <<areas, page_table, heap_start>>
lockVars  == <<lockFlag, intr, guards, spin>>
fdVars    == <<files, fd_flags>>
pipeVars  == <<buffer, capacity, write_end_count, read_end_count, ends, pipeCalls>>
tmpVars   == <<tmAllocated, tmInodes, tmOp, tmWritten, tmPanicked>>
walkVars  == <<walk>>
shmVars   == <<shmPanicked>>
findVars  == <<ffa>>
tlbVars   == <<tlb>>
ext2Vars  == <<klog, reg, blk, fmt, tid, tml>>
ext3Vars  == <<fdc, wq, fba, dir>>
extVars   == <<tmpVars, walkVars, shmVars, findVars, tlbVars, ext2Vars, ext3Vars>>
vars == <<frameVars, memVars, lockVars, fdVars, pipeVars, extVars, last>>

None == "None"

Min(S) == CHOOSE x \in S : \A y \in S : x <= y

(***************************************************************************)
(* Bounds                                                                  *)
(***************************************************************************)
\* number of frames handed to init_frame_allocator
TotalFrames == 5
\* bits per bitmap word in the model (u64 words in the source)
WordBits == 2
\* first PPN handed to init_frame_allocator
StartPpn == 8
\* largest n passed to the multi-frame allocation entry points
MaxAllocN == 3
\* largest number of trackers callers hold at once
MaxTrackers == 3

(***************************************************************************)
(* Frame allocator                                                         *)
(***************************************************************************)
\* the allocator record the methods work on
FA == [total_frames |-> total_frames, bitmap |-> bitmap,
       allocated_count |-> allocated_count, last_alloc_hint |-> last_alloc_hint]

\* FrameAllocator::new
FrameAllocator_new ==
    [total_frames |-> 0, bitmap |-> {}, allocated_count |-> 0, last_alloc_hint |-> 0]

\* FrameAllocator::init: total_frames = end - start, zeroed bitmap
FrameAllocator_init(fa, start, end) ==
    [total_frames |-> end - start, bitmap |-> {}, allocated_count |-> 0, last_alloc_hint |-> 0]

\* self.bitmap.len(): (total_frames + 63) / 64 words
bitmap_len(fa) == (fa.total_frames + WordBits - 1) \div WordBits

is_free(fa, frame_idx) == frame_idx \notin fa.bitmap

mark_allocated_NoOp(fa, frame_idx) == fa

mark_allocated(fa, frame_idx) == [fa EXCEPT !.bitmap = @ \cup {frame_idx}]

mark_free(fa, frame_idx) == [fa EXCEPT !.bitmap = @ \ {frame_idx}]

\* word == u64::MAX
WordFull(fa, idx) == \A b \in 0..(WordBits - 1) : (idx * WordBits + b) \in fa.bitmap

\* word == 0
WordEmpty(fa, idx) == \A b \in 0..(WordBits - 1) : (idx * WordBits + b) \notin fa.bitmap

\* (!word).trailing_zeros(): position of the lowest clear bit of a word that is not full
trailing_zeros_not(fa, idx) ==
    Min({b \in 0..(WordBits - 1) : (idx * WordBits + b) \notin fa.bitmap})

\* the offsets of the circular scan at which alloc_frame would stop
AllocFrameHits(fa) ==
    {off \in 0..(bitmap_len(fa) - 1) :
        LET idx == (fa.last_alloc_hint + off) % bitmap_len(fa)
        IN  /\ ~WordFull(fa, idx)
            /\ idx * WordBits + trailing_zeros_not(fa, idx) < fa.total_frames}

AllocFrameNone(fa) == [ok |-> FALSE, fa |-> fa, ppn |-> 0]

\* alloc_frame, the hit: mark_allocated, allocated_count += 1, last_alloc_hint = idx
alloc_frame_take(fa, idx, frame_idx) ==
    [ok |-> TRUE,
     fa |-> [mark_allocated(fa, frame_idx) EXCEPT !.allocated_count = @ + 1,
                                                  !.last_alloc_hint = idx],
     ppn |-> StartPpn + frame_idx]

\* alloc_frame, the word the scan stops at
alloc_frame_word(fa, idx) ==
    alloc_frame_take(fa, idx, idx * WordBits + trailing_zeros_not(fa, idx))

\* the scan taking the lowest word with a free frame, whatever the hint
alloc_frame_scan_Lowest(fa, hits) ==
    IF hits = {} THEN AllocFrameNone(fa)
    ELSE alloc_frame_word(fa, Min({(fa.last_alloc_hint + off) % bitmap_len(fa) : off \in hits}))

\* alloc_frame, the circular scan from last_alloc_hint
alloc_frame_scan(fa, hits) ==
    IF hits = {} THEN AllocFrameNone(fa)
    ELSE alloc_frame_word(fa, (fa.last_alloc_hint + Min(hits)) % bitmap_len(fa))

\* FrameAllocator::alloc_frame: result [ok, fa, ppn]
alloc_frame(fa) ==
    IF bitmap_len(fa) = 0 THEN AllocFrameNone(fa) ELSE alloc_frame_scan(fa, AllocFrameHits(fa))

\* the loop of FrameAllocator::alloc_frames: result [ok, fa, frames] where frames
\* are the PPNs taken so far (all num of them when ok)
RECURSIVE alloc_frames_loop(_, _, _)
RECURSIVE alloc_frames_step(_, _, _, _)
alloc_frames_loop(fa, num, frames) ==
    IF num = 0 THEN [ok |-> TRUE, fa |-> fa, frames |-> frames]
    ELSE alloc_frames_step(fa, num, frames, alloc_frame(fa))

\* one iteration: r is the result of self.alloc_frame()
alloc_frames_step(fa, num, frames, r) ==
    IF r.ok THEN alloc_frames_loop(r.fa, num - 1, Append(frames, r.ppn))
    ELSE [ok |-> FALSE, fa |-> fa, frames |-> frames]

\* marks start_frame .. start_frame + num - 1 and adds num to the count
RECURSIVE mark_range(_, _, _)
mark_range(fa, start_frame, num) ==
    IF num = 0 THEN fa
    ELSE mark_range(mark_allocated(fa, start_frame + num - 1), start_frame, num - 1)

ContigFound(fa, start_frame, num) ==
    [ok |-> TRUE,
     fa |-> [mark_range(fa, start_frame, num) EXCEPT !.allocated_count = @ + num],
     start |-> StartPpn + start_frame, len |-> num]

ContigNone(fa) == [ok |-> FALSE, fa |-> fa, start |-> 0, len |-> 0]

\* the word loop and the bit loop of FrameAllocator::alloc_contig_frames
RECURSIVE contig_words(_, _, _, _, _)
RECURSIVE contig_bits(_, _, _, _, _, _)
RECURSIVE contig_bits_NoReset(_, _, _, _, _, _)
contig_words(fa, num, idx, consecutive, start_frame) ==
    IF idx >= bitmap_len(fa) THEN ContigNone(fa)
    ELSE IF WordFull(fa, idx) THEN contig_words(fa, num, idx + 1, 0, start_frame)
    ELSE IF WordEmpty(fa, idx)
         THEN LET sf == IF consecutive = 0 THEN idx * WordBits ELSE start_frame
                  frames_in_word == Min({WordBits, fa.total_frames - idx * WordBits})
                  c == consecutive + frames_in_word
              IN  IF c >= num THEN ContigFound(fa, sf, num)
                  ELSE contig_words(fa, num, idx + 1, c, sf)
         ELSE contig_bits(fa, num, idx, 0, consecutive, start_frame)

\* the bit loop without consecutive = 0 on an allocated bit
contig_bits_NoReset(fa, num, idx, bit, consecutive, start_frame) ==
    LET frame_idx == idx * WordBits + bit
    IN  IF bit >= WordBits \/ frame_idx >= fa.total_frames
        THEN contig_words(fa, num, idx + 1, consecutive, start_frame)
        ELSE IF frame_idx \notin fa.bitmap
             THEN LET sf == IF consecutive = 0 THEN frame_idx ELSE start_frame
                      c == consecutive + 1
                  IN  IF c = num THEN ContigFound(fa, sf, num)
                      ELSE contig_bits_NoReset(fa, num, idx, bit + 1, c, sf)
             ELSE contig_bits_NoReset(fa, num, idx, bit + 1, consecutive, start_frame)

contig_bits(fa, num, idx, bit, consecutive, start_frame) ==
    LET frame_idx == idx * WordBits + bit
    IN  IF bit >= WordBits \/ frame_idx >= fa.total_frames
        THEN contig_words(fa, num, idx + 1, consecutive, start_frame)
        ELSE IF frame_idx \notin fa.bitmap
             THEN LET sf == IF consecutive = 0 THEN frame_idx ELSE start_frame
                      c == consecutive + 1
                  IN  IF c = num THEN ContigFound(fa, sf, num)
                      ELSE contig_bits(fa, num, idx, bit + 1, c, sf)
             ELSE contig_bits(fa, num, idx, bit + 1, 0, start_frame)

\* FrameAllocator::alloc_contig_frames
alloc_contig_frames(fa, num) ==
    IF num = 0 \/ num > fa.total_frames - fa.allocated_count THEN ContigNone(fa)
    ELSE contig_words(fa, num, 0, 0, 0)

\* (frame_idx + align_pages - 1) & !(align_pages - 1), align_pages a power of two
AlignUp(frame_idx, align_pages) == ((frame_idx + align_pages - 1) \div align_pages) * align_pages

RECURSIVE aligned_scan(_, _, _, _)
aligned_scan(fa, num, align_pages, frame_idx) ==
    IF frame_idx >= fa.total_frames THEN ContigNone(fa)
    ELSE LET aligned_idx == AlignUp(frame_idx, align_pages)
         IN  IF aligned_idx + num > fa.total_frames THEN ContigNone(fa)
             ELSE LET busy == {i \in 0..(num - 1) : ~is_free(fa, aligned_idx + i)}
                  IN  IF busy = {} THEN ContigFound(fa, aligned_idx, num)
                      ELSE aligned_scan(fa, num, align_pages, aligned_idx + Min(busy) + 1)

\* FrameAllocator::alloc_contig_frames_aligned
alloc_contig_frames_aligned(fa, num, align_pages) ==
    IF num = 0 THEN ContigNone(fa) ELSE aligned_scan(fa, num, align_pages, 0)

\* FrameAllocator::dealloc_frame
dealloc_frame(fa, ppn) ==
    [mark_free(fa, ppn - StartPpn) EXCEPT !.allocated_count = @ - 1]

RECURSIVE free_range(_, _, _)
free_range(fa, start_idx, len) ==
    IF len = 0 THEN fa
    ELSE free_range(mark_free(fa, start_idx + len - 1), start_idx, len - 1)

\* dealloc_contig_frames that counts a freed range as one frame
dealloc_contig_frames_CountOne(fa, start, len) ==
    [free_range(fa, start - StartPpn, len) EXCEPT !.allocated_count = @ - 1]

\* FrameAllocator::dealloc_contig_frames
dealloc_contig_frames(fa, start, len) ==
    [free_range(fa, start - StartPpn, len) EXCEPT !.allocated_count = @ - len]

\* a FrameTracker (kind "single", len 1) or FrameRangeTracker (kind "range")
Tracker(kind, start, len) == [kind |-> kind, start |-> start, len |-> len]
SingleTrackers(ppns) == [i \in 1..Len(ppns) |-> Tracker("single", ppns[i], 1)]
TrackerFrames(t) == {t.start + i : i \in 0..(t.len - 1)}

\* Drop for FrameTracker / FrameRangeTracker, applied to the allocator
tracker_drop(fa, t) ==
    IF t.kind = "single" THEN dealloc_frame(fa, t.start)
    ELSE dealloc_contig_frames(fa, t.start, t.len)

SetFA(fa) ==
    /\ total_frames' = fa.total_frames
    /\ bitmap' = fa.bitmap
    /\ allocated_count' = fa.allocated_count
    /\ last_alloc_hint' = fa.last_alloc_hint

RemoveAt(s, i) == [j \in 1..(Len(s) - 1) |-> IF j < i THEN s[j] ELSE s[j + 1]]

AfIdle == [pc |-> "idle", n |-> 0, partial |-> <<>>]

\* the frame-allocator entry points leave the other subsystems alone
OnlyFrame == UNCHANGED <<memVars, lockVars, fdVars, pipeVars, extVars>>

\* a caller is inside FRAME_ALLOCATOR.lock(): the lock is taken only when free
FaLockFree == faLock = FALSE /\ afCall.pc = "idle"

\* init_frame_allocator (boot, once)
InitFrameAllocator ==
    /\ FaLockFree /\ total_frames = 0
    /\ SetFA(FrameAllocator_init(FA, StartPpn, StartPpn + TotalFrames))
    /\ last' = [op |-> "init"]
    /\ UNCHANGED <<faLock, trackers, afCall>>
    /\ OnlyFrame

\* global alloc_frame(): lock, FrameAllocator::alloc_frame, unlock
AllocFrame ==
    /\ FaLockFree /\ Len(trackers) < MaxTrackers
    /\ LET r == alloc_frame(FA)
       IN  /\ SetFA(r.fa)
           /\ trackers' = IF r.ok THEN Append(trackers, Tracker("single", r.ppn, 1)) ELSE trackers
           /\ last' = [op |-> "alloc_frame", ok |-> r.ok, start |-> r.ppn, len |-> 1,
                       preBitmap |-> bitmap, preCount |-> allocated_count,
                       preHint |-> last_alloc_hint]
    /\ UNCHANGED <<faLock, afCall>>
    /\ OnlyFrame

\* global alloc_frames(n): FRAME_ALLOCATOR.lock().alloc_frames(n).  On success the
\* vector is returned and the guard released.  On failure the method returns None
\* while the guard is still alive and the partial vector is dropped inside it.
AllocFramesCall(n) ==
    /\ FaLockFree /\ Len(trackers) + n <= MaxTrackers + 1
    /\ LET r == alloc_frames_loop(FA, n, <<>>)
       IN  /\ SetFA(r.fa)
           /\ IF r.ok
              THEN /\ trackers' = trackers \o SingleTrackers(r.frames)
                   /\ UNCHANGED <<faLock, afCall>>
                   /\ last' = [op |-> "alloc_frames", ok |-> TRUE, n |-> n,
                               freeBefore |-> total_frames - allocated_count,
                               preBitmap |-> bitmap, preCount |-> allocated_count]
              ELSE /\ faLock' = TRUE
                   /\ afCall' = [pc |-> "drop", n |-> n, partial |-> SingleTrackers(r.frames),
                                 freeBefore |-> total_frames - allocated_count,
                                 preBitmap |-> bitmap, preCount |-> allocated_count]
                   /\ UNCHANGED <<trackers, last>>
    /\ OnlyFrame

\* the drop of the partial vector: each FrameTracker::drop calls the global
\* dealloc_frame, which calls FRAME_ALLOCATOR.lock() and spins while the flag is set
AllocFramesDropPartial ==
    /\ afCall.pc = "drop" /\ afCall.partial # <<>>
    /\ IF faLock
       THEN /\ afCall' = [afCall EXCEPT !.pc = "spin"]
            /\ UNCHANGED <<total_frames, bitmap, allocated_count, last_alloc_hint>>
       ELSE /\ SetFA(tracker_drop(FA, Head(afCall.partial)))
            /\ afCall' = [afCall EXCEPT !.partial = Tail(@)]
    /\ UNCHANGED <<faLock, trackers, last>>
    /\ OnlyFrame

\* the failing alloc_frames returns None and the caller's guard is released
AllocFramesReturnNone ==
    /\ afCall.pc = "drop" /\ afCall.partial = <<>>
    /\ faLock' = FALSE
    /\ afCall' = AfIdle
    /\ last' = [op |-> "alloc_frames", ok |-> FALSE, n |-> afCall.n,
                freeBefore |-> afCall.freeBefore,
                preBitmap |-> afCall.preBitmap, preCount |-> afCall.preCount]
    /\ UNCHANGED <<total_frames, bitmap, allocated_count, last_alloc_hint, trackers>>
    /\ OnlyFrame

\* global alloc_contig_frames(n)
AllocContigFrames(n) ==
    /\ FaLockFree /\ Len(trackers) < MaxTrackers
    /\ LET r == alloc_contig_frames(FA, n)
       IN  /\ SetFA(r.fa)
           /\ trackers' = IF r.ok THEN Append(trackers, Tracker("range", r.start, r.len)) ELSE trackers
           /\ last' = [op |-> "alloc_contig_frames", ok |-> r.ok, start |-> r.start, len |-> r.len,
                       preBitmap |-> bitmap, preCount |-> allocated_count]
    /\ UNCHANGED <<faLock, afCall>>
    /\ OnlyFrame

\* global alloc_contig_frames_aligned(n, align_pages)
AllocContigFramesAligned(n, align_pages) ==
    /\ FaLockFree /\ Len(trackers) < MaxTrackers
    /\ LET r == alloc_contig_frames_aligned(FA, n, align_pages)
       IN  /\ SetFA(r.fa)
           /\ trackers' = IF r.ok THEN Append(trackers, Tracker("range", r.start, r.len)) ELSE trackers
           /\ last' = [op |-> "alloc_contig_frames_aligned", ok |-> r.ok, start |-> r.start,
                       len |-> r.len, preBitmap |-> bitmap, preCount |-> allocated_count]
    /\ UNCHANGED <<faLock, afCall>>
    /\ OnlyFrame

\* a caller drops one of its trackers: Drop -> global dealloc_* -> lock, clear, unlock
DropTracker(i) ==
    /\ FaLockFree /\ i \in 1..Len(trackers)
    /\ SetFA(tracker_drop(FA, trackers[i]))
    /\ trackers' = RemoveAt(trackers, i)
    /\ last' = [op |-> "drop", tracker |-> trackers[i],
                preBitmap |-> bitmap, preCount |-> allocated_count]
    /\ UNCHANGED <<faLock, afCall>>
    /\ OnlyFrame

(***************************************************************************)
(* Page table (the per-architecture PageTableInner implementations)        *)
(***************************************************************************)
\* PageTableInner::map_with_batch: AlreadyMapped when the VPN has a PTE
pt_map(pt, vpn, ppn, flags) ==
    IF vpn \in DOMAIN pt
    THEN [ok |-> FALSE, err |-> "AlreadyMapped", pt |-> pt]
    ELSE [ok |-> TRUE, err |-> None,
          pt |-> [v \in DOMAIN pt \cup {vpn} |->
                    IF v = vpn THEN [ppn |-> ppn, flags |-> flags] ELSE pt[v]]]

\* PageTableInner::unmap_with_batch: NotMapped when the VPN has no PTE
pt_unmap(pt, vpn) ==
    IF vpn \notin DOMAIN pt
    THEN [ok |-> FALSE, err |-> "NotMapped", pt |-> pt]
    ELSE [ok |-> TRUE, err |-> None, pt |-> [v \in DOMAIN pt \ {vpn} |-> pt[v]]]

(***************************************************************************)
(* MappingArea                                                             *)
(***************************************************************************)
\* largest VPN (exclusive) used by the callers of the memory space
MaxVpn == 3
\* largest number of areas in the space
MaxAreas == 2
\* number of frames the allocator manages in the memory-space specification
MemFrames == 2

\* MappingArea::new
MappingArea_new(start, end, area_type, map_type, permission) ==
    [start |-> start, end |-> end, area_type |-> area_type, map_type |-> map_type,
     permission |-> permission, frames |-> << >>]

\* PageNumRange as the set of its page numbers
VpnRange(start, end) == {v \in 0..(end - 1) : v >= start}

\* PageNumRange::overlaps
overlaps(s1, e1, s2, e2) == ~(e1 <= s2 \/ s1 >= e2)

\* PageNumRange::contains
contains(a, vpn) == vpn >= a.start /\ vpn < a.end

\* BTreeMap::insert on area.frames; a replaced FrameTracker is dropped
frames_insert(st, vpn, ppn) ==
    LET old == st.area.frames
        fa1 == IF vpn \in DOMAIN old THEN dealloc_frame(st.fa, old[vpn]) ELSE st.fa
    IN  [st EXCEPT !.fa = fa1,
                   !.area.frames = [v \in DOMAIN old \cup {vpn} |-> IF v = vpn THEN ppn ELSE old[v]]]

\* BTreeMap::remove on area.frames; the removed FrameTracker is dropped
frames_remove(st, vpn) ==
    LET old == st.area.frames
    IN  IF vpn \in DOMAIN old
        THEN [st EXCEPT !.fa = dealloc_frame(st.fa, old[vpn]),
                        !.area.frames = [v \in DOMAIN old \ {vpn} |-> old[v]]]
        ELSE st

Ok(st) == [st EXCEPT !.ok = TRUE, !.err = None]
Err(st, e) == [st EXCEPT !.ok = FALSE, !.err = e]

\* the result of page_table.map_with_batch(..)? inside map_one_with_batch
PteMapped(st, m) == IF m.ok THEN Ok([st EXCEPT !.pt = m.pt]) ELSE Err(st, m.err)

\* map_one_with_batch, Direct: ppn = vpn
map_one_direct(st, vpn) == PteMapped(st, pt_map(st.pt, vpn, vpn, st.area.permission))

\* map_one_with_batch, Framed: r is the result of alloc_frame(); the tracker goes
\* into frames before the page table is written
map_one_framed(st, vpn, r) ==
    IF ~r.ok THEN Err(st, "FrameAllocFailed")
    ELSE PteMapped(frames_insert([st EXCEPT !.fa = r.fa], vpn, r.ppn),
                   pt_map(st.pt, vpn, r.ppn, st.area.permission))

\* MappingArea::map_one_with_batch on st = [area, pt, fa, ok, err]
map_one(st, vpn) ==
    IF st.area.map_type = "Reserved" THEN Ok(st)
    ELSE IF st.area.map_type = "Direct" THEN map_one_direct(st, vpn)
    ELSE map_one_framed(st, vpn, alloc_frame(st.fa))

\* the result of page_table.unmap_with_batch(..)? inside unmap_one_with_batch
PteUnmapped(st, vpn, u) ==
    IF ~u.ok THEN Err(st, u.err)
    ELSE IF st.area.map_type = "Framed" THEN Ok(frames_remove([st EXCEPT !.pt = u.pt], vpn))
    ELSE Ok([st EXCEPT !.pt = u.pt])

\* MappingArea::unmap_one_with_batch
unmap_one(st, vpn) ==
    IF st.area.map_type = "Reserved" THEN Ok(st)
    ELSE PteUnmapped(st, vpn, pt_unmap(st.pt, vpn))

\* for vpn in from..to-1 { map_one(vpn)? }
RECURSIVE map_pages(_, _, _)
RECURSIVE map_pages_next(_, _, _)
map_pages(st, from, to) ==
    IF from >= to THEN Ok(st) ELSE map_pages_next(map_one(st, from), from, to)

map_pages_next(r, from, to) == IF r.ok THEN map_pages(r, from + 1, to) ELSE r

\* for vpn in from..to-1 { unmap_one(vpn)? }
RECURSIVE unmap_pages(_, _, _)
RECURSIVE unmap_pages_next(_, _, _)
unmap_pages(st, from, to) ==
    IF from >= to THEN Ok(st) ELSE unmap_pages_next(unmap_one(st, from), from, to)

unmap_pages_next(r, from, to) == IF r.ok THEN unmap_pages(r, from + 1, to) ELSE r

\* MappingArea::map
area_map(st) == map_pages(st, st.area.start, st.area.end)

\* MappingArea::unmap
area_unmap(st) == unmap_pages(st, st.area.start, st.area.end)

\* self.vpn_range = VpnRange::new(start, end), reached only when every page succeeded
SetEndIfOk(r, end) == IF r.ok THEN [r EXCEPT !.area.end = end] ELSE r

\* MappingArea::extend: maps count pages after the end, then moves the end
area_extend(st, count) ==
    SetEndIfOk(map_pages(st, st.area.end, st.area.end + count), st.area.end + count)

\* MappingArea::shrink
area_shrink(st, count) ==
    IF count > st.area.end - st.area.start THEN Err(st, "ShrinkBelowStart")
    ELSE SetEndIfOk(unmap_pages(st, st.area.end - count, st.area.end), st.area.end - count)

\* dropping a MappingArea drops every FrameTracker in its frames map
RECURSIVE drop_frames(_, _)
drop_frames(fa, frames) ==
    IF DOMAIN frames = {} THEN fa
    ELSE LET v == Min(DOMAIN frames)
         IN  drop_frames(dealloc_frame(fa, frames[v]), [w \in DOMAIN frames \ {v} |-> frames[w]])

area_drop(fa, area) == drop_frames(fa, area.frames)

(***************************************************************************)
(* MemorySpace                                                             *)
(***************************************************************************)
St(area) == [area |-> area, pt |-> page_table, fa |-> FA, ok |-> TRUE, err |-> None]

OnlyMem == UNCHANGED <<faLock, trackers, afCall, lockVars, fdVars, pipeVars, extVars>>

\* insert_area after area.map(): pushed on success, dropped on failure
InsertMapped(r) ==
    IF r.ok
    THEN [ok |-> TRUE, err |-> None, areas |-> Append(areas, r.area), pt |-> r.pt, fa |-> r.fa]
    ELSE [ok |-> FALSE, err |-> r.err, areas |-> areas, pt |-> r.pt,
          fa |-> area_drop(r.fa, r.area)]

\* MemorySpace::insert_area: result [ok, err, areas, pt, fa]
insert_area(area) ==
    IF \E i \in 1..Len(areas) :
          overlaps(areas[i].start, areas[i].end, area.start, area.end)
    THEN [ok |-> FALSE, err |-> "AlreadyMapped", areas |-> areas, pt |-> page_table, fa |-> FA]
    ELSE InsertMapped(area_map(St(area)))

Commit(op, r) ==
    /\ areas' = r.areas
    /\ page_table' = r.pt
    /\ SetFA(r.fa)
    /\ last' = IF r.ok THEN [op |-> op, ok |-> TRUE, err |-> r.err]
                ELSE [op |-> op, ok |-> FALSE, err |-> r.err,
                      prePt |-> page_table, preAreas |-> areas]

\* MemorySpace::set_heap_start
SetHeapStart(v) ==
    /\ heap_start' = <<v>>
    /\ last' = [op |-> "set_heap_start", ok |-> TRUE, err |-> None]
    /\ UNCHANGED <<areas, page_table, total_frames, bitmap, allocated_count, last_alloc_hint>>
    /\ OnlyMem

\* MemorySpace::insert_framed_area (data = None)
InsertFramedArea(s, e, area_type) ==
    /\ Len(areas) < MaxAreas
    /\ Commit("insert_framed_area", insert_area(MappingArea_new(s, e, area_type, "Framed", "rw")))
    /\ UNCHANGED heap_start
    /\ OnlyMem

\* MemorySpace::insert_reserved_area
InsertReservedArea(s, e, area_type) ==
    /\ Len(areas) < MaxAreas
    /\ Commit("insert_reserved_area", insert_area(MappingArea_new(s, e, area_type, "Reserved", "none")))
    /\ UNCHANGED heap_start
    /\ OnlyMem

\* MemorySpace::insert_area with a Direct kernel area
InsertDirectArea(s, e) ==
    /\ Len(areas) < MaxAreas
    /\ Commit("insert_area", insert_area(MappingArea_new(s, e, "KernelData", "Direct", "rw")))
    /\ UNCHANGED heap_start
    /\ OnlyMem

\* remove_area after self.areas.remove(pos): r is the result of area.unmap(); the
\* area is dropped at the end of the call whether or not unmap succeeded
RemoveUnmapped(pos, r) ==
    [ok |-> r.ok, err |-> r.err, areas |-> RemoveAt(areas, pos), pt |-> r.pt,
     fa |-> area_drop(r.fa, r.area)]

\* MemorySpace::remove_area: result [ok, err, areas, pt, fa]
remove_area(hits) ==
    IF hits = {}
    THEN [ok |-> FALSE, err |-> "NotMapped", areas |-> areas, pt |-> page_table, fa |-> FA]
    ELSE RemoveUnmapped(Min(hits), area_unmap(St(areas[Min(hits)])))

RemoveArea(vpn) ==
    /\ Commit("remove_area", remove_area({i \in 1..Len(areas) : contains(areas[i], vpn)}))
    /\ UNCHANGED heap_start
    /\ OnlyMem

\* extend_heap with a heap area: r is the state after area.extend / area.shrink
HeapResized(pos, r) ==
    [ok |-> r.ok, err |-> r.err, areas |-> [areas EXCEPT ![pos] = r.area], pt |-> r.pt, fa |-> r.fa]

\* extend_heap, the match on new_end.cmp(current_end)
resize_heap(st, new_end) ==
    IF new_end > st.area.end THEN area_extend(st, new_end - st.area.end)
    ELSE IF new_end < st.area.end THEN area_shrink(st, st.area.end - new_end)
    ELSE st

\* extend_heap without a heap area
create_heap(new_end) ==
    IF heap_start = <<>> \/ new_end < heap_start[1]
    THEN [ok |-> FALSE, err |-> "InvalidAddress", areas |-> areas, pt |-> page_table, fa |-> FA]
    ELSE insert_area(MappingArea_new(heap_start[1], new_end, "UserHeap", "Framed", "rw"))

\* the first area of type UserHeap, given the indices of all of them
extend_heap_find(heaps, new_end) ==
    IF heaps # {} THEN HeapResized(Min(heaps), resize_heap(St(areas[Min(heaps)]), new_end))
    ELSE create_heap(new_end)

\* MemorySpace::extend_heap
extend_heap(new_end) ==
    extend_heap_find({i \in 1..Len(areas) : areas[i].area_type = "UserHeap"}, new_end)

\* the state after extend_heap, and the observation of the call with its argument
CommitHeap(new_end, r) ==
    /\ areas' = r.areas
    /\ page_table' = r.pt
    /\ SetFA(r.fa)
    /\ last' = [op |-> "extend_heap", ok |-> r.ok, err |-> r.err, new_end |-> new_end,
                prePt |-> page_table, preAreas |-> areas]

ExtendHeap(new_end) ==
    /\ Len(areas) < MaxAreas \/ \E i \in 1..Len(areas) : areas[i].area_type = "UserHeap"
    /\ CommitHeap(new_end, extend_heap(new_end))
    /\ UNCHANGED heap_start
    /\ OnlyMem

(***************************************************************************)
(* MappingArea::partial_change_permission                                  *)
(***************************************************************************)
\* PageTableInner::update_flags_with_batch: NotMapped when the VPN has no PTE
pt_update_flags(pt, vpn, flags) ==
    IF vpn \notin DOMAIN pt
    THEN [ok |-> FALSE, err |-> "NotMapped", pt |-> pt]
    ELSE [ok |-> TRUE, err |-> None, pt |-> [pt EXCEPT ![vpn].flags = flags]]

\* for vpn in from..to-1 { page_table.update_flags_with_batch(vpn, flags)? }
RECURSIVE update_pages(_, _, _, _)
RECURSIVE update_pages_next(_, _, _, _, _)
update_pages(st, from, to, flags) ==
    IF from >= to THEN Ok(st)
    ELSE update_pages_next(st, pt_update_flags(st.pt, from, flags), from, to, flags)

update_pages_next(st, u, from, to, flags) ==
    IF u.ok THEN update_pages([st EXCEPT !.pt = u.pt], from + 1, to, flags) ELSE Err(st, u.err)

\* new_perm.intersects(READABLE | WRITEABLE | EXECUTABLE)
wants_mapping(new_perm) == new_perm # "none"

\* the entries of a frames map whose VPN lies in [from, to)
frames_in(frames, from, to) ==
    [v \in {w \in DOMAIN frames : w >= from /\ w < to} |-> frames[v]]

\* the sub-area [start, end) of the split, or nothing when it is empty
SubArea(area, start, end, map_type, permission, frames) ==
    IF start < end
    THEN <<[MappingArea_new(start, end, area.area_type, map_type, permission)
               EXCEPT !.frames = frames_in(frames, start, end)]>>
    ELSE <<>>

PermOk(out, pt, fa) == [ok |-> TRUE, err |-> None, out |-> out, pt |-> pt, fa |-> fa]

\* an error return: self, the sub-areas and every frame they hold are dropped
PermErr(err, pt, fa, frames) ==
    [ok |-> FALSE, err |-> err, out |-> <<>>, pt |-> pt, fa |-> drop_frames(fa, frames)]

\* the Framed branch: r is the state after the flag updates (wants_mapping) or
\* after the unmap loop; the frames left in self go to left and right by VPN,
\* a frame with no sub-area to go to is dropped
split_framed(area, cs, ce, new_perm, r) ==
    IF ~r.ok THEN PermErr(r.err, r.pt, r.fa, r.area.frames)
    ELSE PermOk(SubArea(area, area.start, cs, area.map_type, area.permission, r.area.frames)
                \o SubArea(area, cs, ce, IF wants_mapping(new_perm) THEN "Framed" ELSE "Reserved",
                           new_perm, r.area.frames)
                \o SubArea(area, ce, area.end, area.map_type, area.permission, r.area.frames),
                r.pt,
                drop_frames(r.fa, [v \in {w \in DOMAIN r.area.frames :
                                            \/ (w < cs /\ ~(area.start < cs))
                                            \/ (w >= ce /\ ~(ce < area.end))} |-> r.area.frames[v]]))

\* the Reserved branch: r is the middle area after its map loop (wants_mapping)
split_reserved(area, cs, ce, r) ==
    IF ~r.ok THEN PermErr(r.err, r.pt, r.fa, r.area.frames)
    ELSE PermOk(SubArea(area, area.start, cs, area.map_type, area.permission, << >>)
                \o <<r.area>>
                \o SubArea(area, ce, area.end, area.map_type, area.permission, << >>),
                r.pt, r.fa)

\* partial_change_permission with a non-empty change range [cs, ce)
change_range(st, cs, ce, new_perm) ==
    IF st.area.map_type = "Direct"
    THEN PermErr("UnsupportedMapType", st.pt, st.fa, st.area.frames)
    ELSE IF st.area.map_type = "Framed"
    THEN split_framed(st.area, cs, ce, new_perm,
                      IF wants_mapping(new_perm) THEN update_pages(st, cs, ce, new_perm)
                      ELSE unmap_pages(st, cs, ce))
    ELSE split_reserved(st.area, cs, ce,
                        IF wants_mapping(new_perm)
                        THEN map_pages([st EXCEPT !.area =
                                 MappingArea_new(cs, ce, st.area.area_type, "Framed", new_perm)],
                                 cs, ce)
                        ELSE Ok([st EXCEPT !.area =
                                 MappingArea_new(cs, ce, st.area.area_type, "Reserved", new_perm)]))

\* MappingArea::partial_change_permission(self, page_table, start_vpn, end_vpn, new_perm)
partial_change_permission(st, start_vpn, end_vpn, new_perm) ==
    IF Min({end_vpn, st.area.end}) <= (IF start_vpn > st.area.start THEN start_vpn ELSE st.area.start)
    THEN PermOk(<<st.area>>, st.pt, st.fa)
    ELSE change_range(st, IF start_vpn > st.area.start THEN start_vpn ELSE st.area.start,
                      Min({end_vpn, st.area.end}), new_perm)

\* the caller takes the area out of the space and puts the returned areas back
PermCommit(pos, start_vpn, end_vpn, new_perm, r) ==
    /\ areas' = RemoveAt(areas, pos) \o r.out
    /\ page_table' = r.pt
    /\ SetFA(r.fa)
    /\ last' = [op |-> "partial_change_permission", ok |-> r.ok, err |-> r.err,
                area |-> areas[pos], start |-> start_vpn, end |-> end_vpn, perm |-> new_perm,
                out |-> r.out]

PartialChangePermission(pos, start_vpn, end_vpn, new_perm) ==
    /\ pos \in 1..Len(areas)
    /\ PermCommit(pos, start_vpn, end_vpn, new_perm,
                  partial_change_permission(St(areas[pos]), start_vpn, end_vpn, new_perm))
    /\ UNCHANGED heap_start
    /\ OnlyMem

(***************************************************************************)
(* MemorySpace::find_free_area                                             *)
(***************************************************************************)
FindIdle == [pc |-> "idle"]

OnlyFind == UNCHANGED <<frameVars, memVars, lockVars, fdVars, pipeVars, tmpVars, walkVars, shmVars,
                        tlbVars, ext2Vars, ext3Vars>>

\* the areas whose range overlaps the candidate [s, e)
overlapping(s, e) == {i \in 1..Len(areas) : overlaps(areas[i].start, areas[i].end, s, e)}

\* .map(|area| area.vpn_range().end()).max()
max_end(idx) == CHOOSE m \in {areas[i].end : i \in idx} : \A i \in idx : areas[i].end <= m

\* the loop condition with < in place of <=
scan_continues_Strict(current, size_pages, end) == current + size_pages < end

\* while current.as_usize() + size_pages <= end.as_usize()
scan_continues(current, size_pages, end) == current + size_pages <= end

\* let mut current = start
FindFreeBegin(start, end, size_pages) ==
    /\ ffa.pc = "idle"
    /\ ffa' = [pc |-> "scan", start |-> start, end |-> end, size_pages |-> size_pages,
               current |-> start]
    /\ last' = [op |-> "find_free_area.begin"]
    /\ OnlyFind

\* the call returns: result is None (<< >>) or Some(candidate)
FindFreeReturn(result) ==
    /\ ffa' = FindIdle
    /\ last' = [op |-> "find_free_area", start |-> ffa.start, end |-> ffa.end,
                size_pages |-> ffa.size_pages, result |-> result]

\* one evaluation of the loop condition and, when it holds, one loop body
FindFreeStep ==
    /\ ffa.pc = "scan"
    /\ IF ~scan_continues(ffa.current, ffa.size_pages, ffa.end)
       THEN FindFreeReturn(<< >>)
       ELSE IF overlapping(ffa.current, ffa.current + ffa.size_pages) = {}
            THEN FindFreeReturn(<<[start |-> ffa.current, end |-> ffa.current + ffa.size_pages]>>)
            ELSE /\ ffa' = [ffa EXCEPT !.current =
                              max_end(overlapping(ffa.current, ffa.current + ffa.size_pages))]
                 /\ last' = [op |-> "find_free_area.step"]
    /\ OnlyFind

(***************************************************************************)
(* TlbBatchContextWrapper and the page loops of MappingArea                *)
(***************************************************************************)
TlbIdle == [pc |-> "idle"]

OnlyTlb == UNCHANGED <<frameVars, memVars, lockVars, fdVars, pipeVars, tmpVars, walkVars,
                       shmVars, findVars, ext2Vars, ext3Vars>>

\* the start of a page loop over `count` pages.  with_batch: the loop is the
\* closure of TlbBatchContextWrapper::execute, which has created ctx (no pending
\* invalidation yet); otherwise the loop passes batch = None to the page table
AreaOpBegin(op, count, with_batch) ==
    /\ tlb.pc = "idle"
    /\ tlb' = [pc |-> "body", op |-> op, count |-> count, i |-> 0,
               ctx |-> IF with_batch THEN <<0>> ELSE << >>,
               opened |-> IF with_batch THEN 1 ELSE 0, unbatched |-> 0, ok |-> TRUE]
    /\ last' = [op |-> "area_op.begin"]
    /\ OnlyTlb

\* MappingArea::map
MapBegin(count) == AreaOpBegin("map", count, TRUE)

\* MappingArea::unmap
UnmapBegin(count) == AreaOpBegin("unmap", count, TRUE)

\* MappingArea::clone_with_data (fork copy), one page per frame of the area
CloneWithDataBegin(count) == AreaOpBegin("clone_with_data", count, TRUE)

\* MappingArea::partial_unmap of a mapped area, count pages in the clipped range
PartialUnmapBegin(count) == AreaOpBegin("partial_unmap", count, TRUE)

\* MappingArea::partial_change_permission: whichever branch runs, its page loop
\* is one execute closure
ChangePermissionBegin(count) == AreaOpBegin("partial_change_permission", count, TRUE)

\* MappingArea::extend: self.map_one, that is map_one_with_batch(.., None)
ExtendBegin(count) == AreaOpBegin("extend", count, FALSE)

\* MappingArea::shrink: self.unmap_one, that is unmap_one_with_batch(.., None)
ShrinkBegin(count) == AreaOpBegin("shrink", count, FALSE)

\* the call returns; flushed is the number of batch flushes that took effect
AreaOpReturn(ok, flushed) ==
    /\ tlb' = TlbIdle
    /\ last' = [op |-> tlb.op, ok |-> ok, count |-> tlb.count, updates |-> tlb.i,
                opened |-> tlb.opened, flushed |-> flushed, unbatched |-> tlb.unbatched]

\* one iteration whose page-table update succeeds: with Some(batch) the
\* invalidation is left pending in the batch, with None it is not in any batch
AreaOpPage ==
    /\ tlb.pc = "body" /\ tlb.i < tlb.count
    /\ tlb' = [tlb EXCEPT !.i = @ + 1,
                          !.ctx = IF tlb.ctx = << >> THEN << >> ELSE <<tlb.ctx[1] + 1>>,
                          !.unbatched = IF tlb.ctx = << >> THEN @ + 1 ELSE @]
    /\ last' = [op |-> "area_op.page"]
    /\ OnlyTlb

\* the loop ends, by its last iteration (ok) or by `?` on a failed page (~ok).
\* Inside execute the closure returns to ctx.flush(); outside, the caller returns
AreaOpLoopEnd(ok) ==
    /\ tlb.pc = "body"
    /\ ok => tlb.i = tlb.count
    /\ ~ok => tlb.i < tlb.count
    /\ IF tlb.ctx = << >>
       THEN AreaOpReturn(ok, 0)
       ELSE /\ tlb' = [tlb EXCEPT !.pc = "flush", !.ok = ok]
            /\ last' = [op |-> "area_op.closure"]
    /\ OnlyTlb

\* TlbBatchContextWrapper::execute: ctx.flush(), then return result.
\* TlbBatchContextWrapper::new stores in inner_data the address of _storage inside
\* its local `wrapper` and returns the wrapper by value, so flush() dereferences a
\* pointer to the place the wrapper was built in: the flush reaches the batch
\* only when the build constructs the wrapper in place (landed)
ExecuteFlush(landed) ==
    /\ tlb.pc = "flush"
    /\ AreaOpReturn(tlb.ok, IF landed THEN 1 ELSE 0)
    /\ OnlyTlb

(***************************************************************************)
(* Framing of the subsystems below                                         *)
(***************************************************************************)
OnlyKlog == UNCHANGED <<frameVars, memVars, lockVars, fdVars, pipeVars, tmpVars, walkVars, shmVars,
                        findVars, tlbVars, reg, blk, fmt, tid, tml, ext3Vars>>
OnlyReg == UNCHANGED <<frameVars, memVars, lockVars, fdVars, pipeVars, tmpVars, walkVars, shmVars,
                        findVars, tlbVars, klog, blk, fmt, tid, tml, ext3Vars>>
OnlyBlk == UNCHANGED <<frameVars, memVars, lockVars, fdVars, pipeVars, tmpVars, walkVars, shmVars,
                        findVars, tlbVars, klog, reg, fmt, tid, tml, ext3Vars>>
OnlyFmt == UNCHANGED <<frameVars, memVars, lockVars, fdVars, pipeVars, tmpVars, walkVars, shmVars,
                        findVars, tlbVars, klog, reg, blk, tid, tml, ext3Vars>>
OnlyTid == UNCHANGED <<frameVars, memVars, lockVars, fdVars, pipeVars, tmpVars, walkVars, shmVars,
                        findVars, tlbVars, klog, reg, blk, fmt, tml, ext3Vars>>
OnlyTml == UNCHANGED <<frameVars, memVars, lockVars, fdVars, pipeVars, tmpVars, walkVars, shmVars,
                        findVars, tlbVars, klog, reg, blk, fmt, tid, ext3Vars>>

OnlyFdc == UNCHANGED <<frameVars, memVars, lockVars, pipeVars, tmpVars, walkVars, shmVars,
                       findVars, tlbVars, ext2Vars, wq, fba, dir>>
OnlyWq == UNCHANGED <<frameVars, memVars, lockVars, fdVars, pipeVars, tmpVars, walkVars, shmVars,
                      findVars, tlbVars, ext2Vars, fdc, fba, dir>>
OnlyFba == UNCHANGED <<frameVars, memVars, lockVars, fdVars, pipeVars, tmpVars, walkVars, shmVars,
                       findVars, tlbVars, ext2Vars, fdc, wq, dir>>
OnlyDir == UNCHANGED <<frameVars, memVars, lockVars, fdVars, pipeVars, tmpVars, walkVars, shmVars,
                       findVars, tlbVars, ext2Vars, fdc, wq, fba>>

(***************************************************************************)
(* LogCore and GlobalLogBuffer                                             *)
(***************************************************************************)
\* CPUs that log
LogCpus == 1..2
\* number of entries the ring holds
LogCapacity == 2
\* LogLevel as u8 (0 = Emergency .. 7 = Debug): Error, Info, Debug
LogLevels == {3, 6, 7}

LogIdle == [pc |-> "idle", level |-> 0, seq |-> 0]

\* LogCore::new(global_level, console_level) with an empty GlobalLogBuffer;
\* passed counts the _log calls that went past the filter, reads the read_log calls
LogCore_new(global_level, console_level) ==
    [global_level |-> global_level, console_level |-> console_level,
     writer |-> 0, reader |-> 0, dropped |-> 0, passed |-> 0, reads |-> 0,
     calls |-> [c \in LogCpus |-> LogIdle]]

\* LogCore::default(): global level Info, console level Warning
InitKlog == LogCore_new(6, 4)

\* the filter with < in place of <=
is_level_enabled_Strict(level) == level < klog.global_level

\* LogCore::is_level_enabled
is_level_enabled(level) == level <= klog.global_level

\* GlobalLogBuffer::len
log_len == klog.writer - klog.reader

\* LogCore::_log, step 1: the early filter; a filtered call returns at once.
\* passed counts the calls whose level is within global_level
Log(c, level) ==
    /\ klog.calls[c].pc = "idle"
    /\ klog' = [klog EXCEPT !.passed = IF level <= klog.global_level THEN @ + 1 ELSE @,
                            !.calls[c] = IF is_level_enabled(level)
                                         THEN [pc |-> "reserve", level |-> level, seq |-> 0]
                                         ELSE @]
    /\ last' = [op |-> "_log.filter", level |-> level]
    /\ OnlyKlog

\* GlobalLogBuffer::write: the producer reserves its slot with fetch_add on the writer index
BufferReserve(c) ==
    /\ klog.calls[c].pc = "reserve"
    /\ klog' = [klog EXCEPT !.writer = @ + 1,
                            !.calls[c].seq = klog.writer, !.calls[c].pc = "check"]
    /\ last' = [op |-> "_log.step"]
    /\ OnlyKlog

\* GlobalLogBuffer::write: the writer has outrun the reader by the capacity
BufferCheck(c) ==
    /\ klog.calls[c].pc = "check"
    /\ klog' = [klog EXCEPT !.calls[c].pc =
                   IF klog.calls[c].seq - klog.reader >= LogCapacity THEN "discard" ELSE "commit"]
    /\ last' = [op |-> "_log.step"]
    /\ OnlyKlog

\* GlobalLogBuffer::write on overflow: the oldest entry is discarded
BufferDiscard(c) ==
    /\ klog.calls[c].pc = "discard"
    /\ klog' = [klog EXCEPT !.reader = @ + 1, !.calls[c].pc = "count"]
    /\ last' = [op |-> "_log.step"]
    /\ OnlyKlog

\* GlobalLogBuffer::write on overflow: dropped_count is incremented
BufferCount(c) ==
    /\ klog.calls[c].pc = "count"
    /\ klog' = [klog EXCEPT !.dropped = @ + 1, !.calls[c].pc = "commit"]
    /\ last' = [op |-> "_log.step"]
    /\ OnlyKlog

\* GlobalLogBuffer::write: the entry is written and its sequence number published;
\* LogCore::_log returns (the console echo does not touch the buffer)
BufferCommit(c) ==
    /\ klog.calls[c].pc = "commit"
    /\ klog' = [klog EXCEPT !.calls[c] = LogIdle]
    /\ last' = [op |-> "_log", level |-> klog.calls[c].level, seq |-> klog.calls[c].seq]
    /\ OnlyKlog

\* LogCore::_read_log: pops one entry, None when the buffer is empty
ReadLog ==
    /\ klog' = IF log_len > 0 THEN [klog EXCEPT !.reader = @ + 1, !.reads = 1]
               ELSE [klog EXCEPT !.reads = 1]
    /\ last' = [op |-> "_read_log", some |-> log_len > 0]
    /\ OnlyKlog

\* LogCore::_set_global_level
SetGlobalLevel(level) ==
    /\ klog' = [klog EXCEPT !.global_level = level]
    /\ last' = [op |-> "_set_global_level", level |-> level]
    /\ OnlyKlog

(***************************************************************************)
(* Ops registries: two atomics holding the halves of a fat pointer         *)
(***************************************************************************)
\* sync::ARCH_OPS_*, mm::ARCH_OPS_*, klog::CONTEXT_PROVIDER
Registries == {"sync", "mm", "klog"}
\* CPUs that look an implementation up
RegCpus == 1..2
\* the halves of the one trait object registered per registry; 0 is the initial
\* value of the atomics (null)
Obj == [data |-> 1, vtable |-> 1]

\* AtomicUsize::new(0) / AtomicPtr::new(null_mut()); no call in progress
InitReg == [data |-> [k \in Registries |-> 0], vtable |-> [k \in Registries |-> 0],
            registering |-> [k \in Registries |-> "no"],
            look |-> [c \in RegCpus |-> [pc |-> "idle"]]]

\* register_arch_ops / register_context_provider: DATA.store(data, Release)
RegisterStoreData(k) ==
    /\ reg.registering[k] = "no"
    /\ reg' = [reg EXCEPT !.data[k] = Obj.data, !.registering[k] = "data"]
    /\ last' = [op |-> "register.data", k |-> k]
    /\ OnlyReg

\* register_arch_ops / register_context_provider: VTABLE.store(vtable, Release)
RegisterStoreVtable(k) ==
    /\ reg.registering[k] = "data"
    /\ reg' = [reg EXCEPT !.vtable[k] = Obj.vtable, !.registering[k] = "done"]
    /\ last' = [op |-> "register", k |-> k]
    /\ OnlyReg

\* arch_ops / get_context_provider: let data = DATA.load(Acquire)
LookupLoadData(c, k) ==
    /\ reg.look[c].pc = "idle"
    /\ reg' = [reg EXCEPT !.look[c] = [pc |-> "data", k |-> k, data |-> reg.data[k]]]
    /\ last' = [op |-> "lookup.data", k |-> k]
    /\ OnlyReg

\* sync::arch_ops and mm::arch_ops: panic when data == 0, else the fat pointer (data, vtable)
arch_ops(data, vtable) ==
    IF data = 0 THEN [kind |-> "panic"] ELSE [kind |-> "object", data |-> data, vtable |-> vtable]

\* klog::get_context_provider: None when either half is null
get_context_provider(data, vtable) ==
    IF data = 0 \/ vtable = 0 THEN [kind |-> "None"]
    ELSE [kind |-> "object", data |-> data, vtable |-> vtable]

\* arch_ops / get_context_provider: let vtable = VTABLE.load(Acquire), then the result
LookupLoadVtable(c) ==
    /\ reg.look[c].pc = "data"
    /\ reg' = [reg EXCEPT !.look[c] = [pc |-> "idle"]]
    /\ last' = [op |-> "lookup", k |-> reg.look[c].k, registered |-> reg.registering[reg.look[c].k],
                result |-> IF reg.look[c].k = "klog"
                           THEN get_context_provider(reg.look[c].data, reg.vtable[reg.look[c].k])
                           ELSE arch_ops(reg.look[c].data, reg.vtable[reg.look[c].k])]
    /\ OnlyReg

(***************************************************************************)
(* BlkDeviceFile                                                           *)
(***************************************************************************)
\* BlkDeviceFile::BLOCK_SIZE, scaled down from 512
BLOCK_SIZE == 2
\* sectors of the block device
BlkSectors == 3
\* largest buffer length of one read or write
BlkMaxLen == 4
\* the byte every write stores
BlkPayload == 9

\* the device holds a different byte at every position; offset: SpinLock::new(0)
InitBlk == [dev |-> [p \in 1..(BlkSectors * BLOCK_SIZE) |-> p], offset |-> 0]

\* device_ops().read_block: false beyond the last sector
read_block_ok(sector_idx) == sector_idx < BlkSectors
read_block(dev, sector_idx) ==
    SubSeq(dev, (sector_idx * BLOCK_SIZE) + 1, (sector_idx + 1) * BLOCK_SIZE)

\* device_ops().write_block
write_block(dev, sector_idx, sector_buf) ==
    [p \in 1..Len(dev) |->
        IF (p - 1) \div BLOCK_SIZE = sector_idx
        THEN sector_buf[((p - 1) % BLOCK_SIZE) + 1] ELSE dev[p]]

\* let sector_idx = start_sector + total_read / Self::BLOCK_SIZE
sector_idx_of(start_sector, sector_offset, total) == start_sector + (total \div BLOCK_SIZE)

BlkMin(a, b) == IF a < b THEN a ELSE b

\* the while loop of BlkDeviceFile::read: result [ok, bytes]
RECURSIVE read_loop(_, _, _, _, _, _)
read_loop(dev, start_sector, sector_offset, total_read, remaining, out) ==
    IF remaining = 0 THEN [ok |-> TRUE, bytes |-> out]
    ELSE LET sector_idx == sector_idx_of(start_sector, sector_offset, total_read)
             offset_in_sector == IF total_read = 0 THEN sector_offset ELSE 0
             to_read == BlkMin(remaining, BLOCK_SIZE - offset_in_sector)
         IN  IF ~read_block_ok(sector_idx) THEN [ok |-> FALSE, bytes |-> out]
             ELSE read_loop(dev, start_sector, sector_offset, total_read + to_read,
                            remaining - to_read,
                            out \o SubSeq(read_block(dev, sector_idx), offset_in_sector + 1,
                                          offset_in_sector + to_read))

\* sector_buf[offset_in_sector..offset_in_sector + to_write].copy_from_slice(..)
patch(sector_buf, offset_in_sector, to_write) ==
    [k \in 1..BLOCK_SIZE |->
        IF k > offset_in_sector /\ k <= offset_in_sector + to_write THEN BlkPayload
        ELSE sector_buf[k]]

\* the while loop of BlkDeviceFile::write: result [ok, dev]; sectors written
\* before a failing block stay written
RECURSIVE write_loop(_, _, _, _, _)
write_loop(dev, start_sector, sector_offset, total_written, remaining) ==
    IF remaining = 0 THEN [ok |-> TRUE, dev |-> dev]
    ELSE LET sector_idx == sector_idx_of(start_sector, sector_offset, total_written)
             offset_in_sector == IF total_written = 0 THEN sector_offset ELSE 0
             to_write == BlkMin(remaining, BLOCK_SIZE - offset_in_sector)
             partial == offset_in_sector # 0 \/ to_write # BLOCK_SIZE
             sector_buf == IF partial THEN read_block(dev, sector_idx)
                           ELSE [k \in 1..BLOCK_SIZE |-> 0]
         IN  IF ~read_block_ok(sector_idx) THEN [ok |-> FALSE, dev |-> dev]
             ELSE write_loop(write_block(dev, sector_idx,
                                         patch(sector_buf, offset_in_sector, to_write)),
                             start_sector, sector_offset, total_written + to_write,
                             remaining - to_write)

\* BlkDeviceFile::read: r is the result of the loop; the offset moves on success only
BlkReadDone(len, r) ==
    /\ blk' = IF r.ok THEN [blk EXCEPT !.offset = @ + len] ELSE blk
    /\ last' = [op |-> "blk_read", ok |-> r.ok, offset |-> blk.offset, len |-> len,
                bytes |-> r.bytes, dev |-> blk.dev]
    /\ OnlyBlk

BlkRead(len) ==
    /\ len >= 0
    /\ BlkReadDone(len, read_loop(blk.dev, blk.offset \div BLOCK_SIZE, blk.offset % BLOCK_SIZE,
                                  0, len, << >>))

\* BlkDeviceFile::write
BlkWriteDone(len, r) ==
    /\ blk' = IF r.ok THEN [dev |-> r.dev, offset |-> blk.offset + len]
              ELSE [blk EXCEPT !.dev = r.dev]
    /\ last' = [op |-> "blk_write", ok |-> r.ok, offset |-> blk.offset, len |-> len,
                dev |-> blk.dev]
    /\ OnlyBlk

BlkWrite(len) ==
    /\ len >= 0
    /\ BlkWriteDone(len, write_loop(blk.dev, blk.offset \div BLOCK_SIZE, blk.offset % BLOCK_SIZE,
                                    0, len))

\* BlkDeviceFile::lseek(offset, SeekWhence::Set)
BlkLseek(offset) ==
    /\ blk' = IF offset < 0 THEN blk ELSE [blk EXCEPT !.offset = offset]
    /\ last' = [op |-> "blk_lseek", ok |-> offset >= 0, offset |-> offset]
    /\ OnlyBlk

(***************************************************************************)
(* Log entry formatting                                                    *)
(***************************************************************************)
InitFmt == [pc |-> "idle"]

\* the decimal digits of n, as Display for an integer writes them
RECURSIVE Digits(_)
Digits(n) ==
    IF n < 10 THEN <<n>> ELSE Append(Digits(n \div 10), n % 10)

\* {:w} on an integer: right-aligned in w columns, never truncated
PadLeft(s, w) ==
    IF Len(s) >= w THEN s ELSE [k \in 1..(w - Len(s)) |-> " "] \o s

\* format_log_entry with the timestamp not padded
format_log_entry_NoPad(entry) ==
    <<[color_code |-> entry.level], [as_str |-> entry.level], " ", "[">>
      \o Digits(entry.timestamp)
      \o <<"]", " ", "[", "C", "P", "U">> \o Digits(entry.cpu_id)
      \o <<"/", "T">> \o PadLeft(Digits(entry.task_id), 3)
      \o <<"]", " ">> \o entry.message \o <<[reset_color_code |-> entry.level]>>

\* format_log_entry: format!("{}{} [{:12}] [CPU{}/T{:3}] {}{}", ..); color_code,
\* as_str and reset_color_code of the level are kept as single symbols
format_log_entry(entry) ==
    <<[color_code |-> entry.level], [as_str |-> entry.level], " ", "[">>
      \o PadLeft(Digits(entry.timestamp), 12)
      \o <<"]", " ", "[", "C", "P", "U">> \o Digits(entry.cpu_id)
      \o <<"/", "T">> \o PadLeft(Digits(entry.task_id), 3)
      \o <<"]", " ">> \o entry.message \o <<[reset_color_code |-> entry.level]>>

\* LogCore::direct_print_entry: format!("{}{} [{:12}] [CPU{}/T{:3}] {}{}\n", ..),
\* handed to the registered output
direct_print_entry(entry) ==
    <<[color_code |-> entry.level], [as_str |-> entry.level], " ", "[">>
      \o PadLeft(Digits(entry.timestamp), 12)
      \o <<"]", " ", "[", "C", "P", "U">> \o Digits(entry.cpu_id)
      \o <<"/", "T">> \o PadLeft(Digits(entry.task_id), 3)
      \o <<"]", " ">> \o entry.message \o <<[reset_color_code |-> entry.level], "\n">>

\* an entry is echoed to the console and formatted for syslog
FormatEntry(entry) ==
    /\ fmt' = [pc |-> "done", entry |-> entry, console |-> direct_print_entry(entry),
               syslog |-> format_log_entry(entry)]
    /\ last' = [op |-> "format"]
    /\ OnlyFmt

(***************************************************************************)
(* TidAllocator (os/src/kernel/task/tid_allocator.rs).  next_tid is an     *)
(* AtomicU32; a u32 is kept as the pair <<high half, low half>> of its     *)
(* two 16-bit halves, so that the counter keeps its width.                 *)
(***************************************************************************)
TidCpus == 1..2

\* a < b on u32 values
u32_lt(a, b) == a[1] < b[1] \/ (a[1] = b[1] /\ a[2] < b[2])

\* AtomicU32::fetch_add(1) stores the sum modulo 2^32
wrapping_add_one(v) ==
    IF v[2] < 65535 THEN <<v[1], v[2] + 1>>
    ELSE IF v[1] < 65535 THEN <<v[1] + 1, 0>>
    ELSE <<0, 0>>

\* TidAllocator::new: next_tid = 2; handed lists the values returned by
\* fetch_add in the order the fetch_adds took place
TidAllocator_new ==
    [next_tid |-> <<0, 2>>, handed |-> <<>>,
     calls |-> [c \in TidCpus |-> [pc |-> "idle"]]]

InitTid == TidAllocator_new

\* the allocator after 2^32 - 5 allocations (TIDs are never given back)
TidAllocator_used ==
    [TidAllocator_new EXCEPT !.next_tid = <<65535, 65533>>]

\* number of allocate calls explored
MaxTidCalls == 5

TidInFlight == Cardinality({c \in TidCpus : tid.calls[c].pc # "idle"})

\* a CPU enters allocate
AllocateCall(c) ==
    /\ tid.calls[c].pc = "idle"
    /\ Len(tid.handed) + TidInFlight < MaxTidCalls
    /\ tid' = [tid EXCEPT !.calls[c] = [pc |-> "fetch_add"]]
    /\ UNCHANGED last
    /\ OnlyTid

\* self.next_tid.fetch_add(1, SeqCst): one atomic step that returns the old
\* value and stores the old value plus one
AllocateFetchAdd(c) ==
    /\ tid.calls[c].pc = "fetch_add"
    /\ tid' = [tid EXCEPT !.next_tid = wrapping_add_one(tid.next_tid),
                          !.handed = Append(tid.handed, tid.next_tid),
                          !.calls[c] = [pc |-> "return", ret |-> tid.next_tid]]
    /\ UNCHANGED last
    /\ OnlyTid

\* allocate returns the fetched value to its caller
AllocateReturn(c) ==
    /\ tid.calls[c].pc = "return"
    /\ tid' = [tid EXCEPT !.calls[c] = [pc |-> "idle"]]
    /\ last' = [op |-> "allocate", cpu |-> c, ret |-> tid.calls[c].ret]
    /\ OnlyTid

(***************************************************************************)
(* The two spin locks of one tmpfs inode (crates/fs/src/tmpfs/inode.rs):   *)
(* metadata and data, taken by read_at, write_at and truncate on several   *)
(* CPUs.  A lock field holds the CPU that owns it, 0 when free; lock()     *)
(* spins until the lock is free, so an acquisition is a step enabled only  *)
(* when the lock is free.  Sizes and offsets are counted in pages.         *)
(***************************************************************************)
TmlCpus == 1..2

\* largest file size explored, in pages
MaxTmlSize == 2

TmlIdle == [pc |-> "idle"]

\* TmpfsInode::new for a regular file: size 0, no page, both locks free
InitTml ==
    [metadata |-> 0, data |-> 0, size |-> 0, data_len |-> 0, panicked |-> FALSE,
     calls |-> [c \in TmlCpus |-> TmlIdle]]

TmlMin(a, b) == IF a < b THEN a ELSE b
TmlMax(a, b) == IF a < b THEN b ELSE a

TmlAt(c, pc) == ~tml.panicked /\ tml.calls[c].pc = pc

\* a CPU enters read_at, write_at or truncate
ReadAtCall(c, offset, len) ==
    /\ TmlAt(c, "idle")
    /\ tml' = [tml EXCEPT !.calls[c] = [pc |-> "read_meta", offset |-> offset, len |-> len]]
    /\ UNCHANGED last
    /\ OnlyTml

WriteAtCall(c, offset, len) ==
    /\ TmlAt(c, "idle")
    /\ offset + len <= MaxTmlSize
    /\ tml' = [tml EXCEPT !.calls[c] = [pc |-> "write_meta", offset |-> offset, len |-> len]]
    /\ UNCHANGED last
    /\ OnlyTml

TruncateCall(c, new_size) ==
    /\ TmlAt(c, "idle")
    /\ tml' = [tml EXCEPT !.calls[c] = [pc |-> "trunc_meta", new_size |-> new_size]]
    /\ UNCHANGED last
    /\ OnlyTml

\* read_at: metadata.lock(); Ok(0) when offset >= size, else read_size is
\* computed and the guard dropped
ReadAtMeta(c) ==
    /\ TmlAt(c, "read_meta")
    /\ tml.metadata = 0
    /\ LET call == tml.calls[c] IN
       IF call.offset >= tml.size
       THEN /\ tml' = [tml EXCEPT !.calls[c] = TmlIdle]
            /\ last' = [op |-> "read_at", cpu |-> c, ret |-> 0]
       ELSE /\ tml' = [tml EXCEPT !.calls[c] =
                         [pc |-> "read_data",
                          read_size |-> TmlMin(call.len, tml.size - call.offset)]]
            /\ UNCHANGED last
    /\ OnlyTml

\* read_at: data.lock() and the copy loop; the guard lives to the end of the function
ReadAtData(c) ==
    /\ TmlAt(c, "read_data")
    /\ tml.data = 0
    /\ tml' = [tml EXCEPT !.data = c, !.calls[c].pc = "read_atime"]
    /\ UNCHANGED last
    /\ OnlyTml

\* read_at: self.update_atime() takes metadata.lock() with the data guard
\* still held; the return drops both
ReadAtUpdateAtime(c) ==
    /\ TmlAt(c, "read_atime")
    /\ tml.metadata = 0
    /\ tml' = [tml EXCEPT !.data = 0, !.calls[c] = TmlIdle]
    /\ last' = [op |-> "read_at", cpu |-> c, ret |-> tml.calls[c].read_size]
    /\ OnlyTml

\* write_at: metadata.lock(), the type check, drop(meta)
WriteAtMeta(c) ==
    /\ TmlAt(c, "write_meta")
    /\ tml.metadata = 0
    /\ tml' = [tml EXCEPT !.calls[c].pc = "write_data"]
    /\ UNCHANGED last
    /\ OnlyTml

\* write_at: data.lock(), the copy loop (data.resize for pages past the end),
\* drop(data); a failed page allocation returns NoSpace from inside the loop
WriteAtData(c, nospace) ==
    /\ TmlAt(c, "write_data")
    /\ tml.data = 0
    /\ LET call == tml.calls[c]
           grown == IF call.len > 0 THEN TmlMax(tml.data_len, call.offset + call.len)
                    ELSE tml.data_len IN
       IF nospace /\ call.len > 0
       THEN /\ tml' = [tml EXCEPT !.data_len = TmlMax(tml.data_len, call.offset + 1),
                                  !.calls[c] = TmlIdle]
            /\ last' = [op |-> "write_at", cpu |-> c, ret |-> "NoSpace"]
       ELSE /\ tml' = [tml EXCEPT !.data_len = grown, !.calls[c].pc = "write_size"]
            /\ UNCHANGED last
    /\ OnlyTml

\* write_at: metadata.lock(); size = max(size, offset + bytes_written); drop(meta)
WriteAtSize(c) ==
    /\ TmlAt(c, "write_size")
    /\ tml.metadata = 0
    /\ tml' = [tml EXCEPT !.size = TmlMax(tml.size, tml.calls[c].offset + tml.calls[c].len),
                          !.calls[c].pc = "write_mtime"]
    /\ UNCHANGED last
    /\ OnlyTml

\* write_at: self.update_mtime() and the return
WriteAtUpdateMtime(c) ==
    /\ TmlAt(c, "write_mtime")
    /\ tml.metadata = 0
    /\ tml' = [tml EXCEPT !.calls[c] = TmlIdle]
    /\ last' = [op |-> "write_at", cpu |-> c, ret |-> tml.calls[c].len]
    /\ OnlyTml

\* truncate: metadata.lock(); when the file does not shrink the size is set
\* and the guard dropped, else the guard is kept while data.lock() is taken
TruncateMeta(c) ==
    /\ TmlAt(c, "trunc_meta")
    /\ tml.metadata = 0
    /\ IF tml.calls[c].new_size < tml.size
       THEN tml' = [tml EXCEPT !.metadata = c, !.calls[c].pc = "trunc_data"]
       ELSE tml' = [tml EXCEPT !.size = tml.calls[c].new_size,
                               !.calls[c].pc = "trunc_mtime"]
    /\ UNCHANGED last
    /\ OnlyTml

\* truncate: data.lock() with the metadata guard held; the slice
\* data[new_page_count..old_page_count.min(data.len())] panics when its start
\* is past its end; else data.truncate, drop(data), the size, drop(meta)
TruncateData(c) ==
    /\ TmlAt(c, "trunc_data")
    /\ tml.data = 0
    /\ LET new_page_count == tml.calls[c].new_size
           old_page_count == tml.size IN
       IF new_page_count > TmlMin(old_page_count, tml.data_len)
       THEN tml' = [tml EXCEPT !.data = c, !.panicked = TRUE]
       ELSE tml' = [tml EXCEPT !.data_len = TmlMin(tml.data_len, new_page_count),
                               !.size = tml.calls[c].new_size,
                               !.metadata = 0,
                               !.calls[c].pc = "trunc_mtime"]
    /\ UNCHANGED last
    /\ OnlyTml

\* truncate: self.update_mtime() and the return
TruncateUpdateMtime(c) ==
    /\ TmlAt(c, "trunc_mtime")
    /\ tml.metadata = 0
    /\ tml' = [tml EXCEPT !.calls[c] = TmlIdle]
    /\ last' = [op |-> "truncate", cpu |-> c, ret |-> "Ok"]
    /\ OnlyTml

\* the lock a call in progress is about to take
TmlWants(c) ==
    IF tml.calls[c].pc \in {"read_data", "write_data", "trunc_data"} THEN "data"
    ELSE "metadata"

\* a call in progress whose next lock() returns
TmlCanStep(c) ==
    /\ tml.calls[c].pc # "idle"
    /\ IF TmlWants(c) = "data" THEN tml.data = 0 ELSE tml.metadata = 0

\* the steps of CPU c inside a call
TmlStep(c) ==
    \/ ReadAtMeta(c) \/ ReadAtData(c) \/ ReadAtUpdateAtime(c)
    \/ WriteAtMeta(c) \/ (\E nospace \in BOOLEAN : WriteAtData(c, nospace))
    \/ WriteAtSize(c) \/ WriteAtUpdateMtime(c)
    \/ TruncateMeta(c) \/ TruncateData(c) \/ TruncateUpdateMtime(c)

(***************************************************************************)
(* RawSpinLock, RawSpinLockGuard, IntrGuard                                *)
(***************************************************************************)
\* number of CPUs
NumCpus == 2
\* number of spin locks
NumLocks == 2
\* largest number of live guards
MaxGuards == 2

Cpus == 1..NumCpus
Locks == 1..NumLocks

\* ArchOps::read_and_disable_interrupts: returns the previous state as flags and
\* leaves interrupts disabled
read_and_disable_interrupts(state) == [flags |-> IF state THEN 1 ELSE 0, state |-> FALSE]

\* ArchOps::restore_interrupts: the interrupt-enable state after the call
restore_interrupts(flags) == flags # 0

compare_exchange_Blind(flag, current, new) == [ok |-> TRUE, flag |-> new]

\* AtomicBool::compare_exchange(current, new)
compare_exchange(flag, current, new) ==
    IF flag = current THEN [ok |-> TRUE, flag |-> new] ELSE [ok |-> FALSE, flag |-> flag]

\* the CPU is not inside the spin loop of lock()
NotSpinning == [lock |-> 0, flags |-> 0]

OnlyLock == UNCHANGED <<frameVars, memVars, fdVars, pipeVars, extVars>>

\* RawSpinLock::lock, first part: IntrGuard::new() on the calling CPU
LockBegin(c, l) ==
    /\ spin[c] = NotSpinning /\ Len(guards) < MaxGuards
    /\ LET r == read_and_disable_interrupts(intr[c])
       IN  /\ intr' = [intr EXCEPT ![c] = r.state]
           /\ spin' = [spin EXCEPT ![c] = [lock |-> l, flags |-> r.flags]]
    /\ last' = [op |-> "lock_begin", cpu |-> c, lock |-> l]
    /\ UNCHANGED <<lockFlag, guards>>
    /\ OnlyLock

\* RawSpinLock::lock, the spin loop: it is left when the compare-exchange succeeds
LockAcquire(c) ==
    /\ spin[c] # NotSpinning
    /\ LET l == spin[c].lock
           r == compare_exchange(lockFlag[l], FALSE, TRUE)
       IN  /\ r.ok
           /\ lockFlag' = [lockFlag EXCEPT ![l] = r.flag]
           /\ guards' = Append(guards, [cpu |-> c, lock |-> l, flags |-> spin[c].flags,
                                        via |-> "lock"])
           /\ last' = [op |-> "lock", cpu |-> c, lock |-> l]
    /\ spin' = [spin EXCEPT ![c] = NotSpinning]
    /\ UNCHANGED intr
    /\ OnlyLock

\* RawSpinLock::try_lock
TryLock(c, l) ==
    /\ spin[c] = NotSpinning /\ Len(guards) < MaxGuards
    /\ LET g == read_and_disable_interrupts(intr[c])
           r == compare_exchange(lockFlag[l], FALSE, TRUE)
       IN  /\ lockFlag' = [lockFlag EXCEPT ![l] = r.flag]
           /\ IF r.ok
              THEN /\ guards' = Append(guards, [cpu |-> c, lock |-> l, flags |-> g.flags,
                                             via |-> "try_lock"])
                   /\ intr' = [intr EXCEPT ![c] = g.state]
              ELSE /\ guards' = guards
                   /\ intr' = [intr EXCEPT ![c] = restore_interrupts(g.flags)]
           /\ last' = [op |-> "try_lock", cpu |-> c, lock |-> l,
                       res |-> IF r.ok THEN "Some" ELSE None]
    /\ UNCHANGED spin
    /\ OnlyLock

\* RawSpinLockGuard::drop: unlock(), then the IntrGuard field is dropped
DropGuard(i) ==
    /\ i \in 1..Len(guards)
    /\ spin[guards[i].cpu] = NotSpinning
    /\ lockFlag' = [lockFlag EXCEPT ![guards[i].lock] = FALSE]
    /\ intr' = [intr EXCEPT ![guards[i].cpu] = restore_interrupts(guards[i].flags)]
    /\ guards' = RemoveAt(guards, i)
    /\ last' = [op |-> "drop_guard", cpu |-> guards[i].cpu, lock |-> guards[i].lock,
                flags |-> guards[i].flags]
    /\ UNCHANGED spin
    /\ OnlyLock

(***************************************************************************)
(* FDTable                                                                 *)
(***************************************************************************)
\* FDTable.max_fds (vfs_ops().default_max_fds() scaled down)
MaxFds == 2
\* number of distinct open files
NumFiles == 2

FdFiles == 1..NumFiles
\* FdFlags: 0 is empty, 1 is CLOEXEC
CLOEXEC == 1
\* a slot that holds no file
NoFile == 0

Table == [files |-> files, fd_flags |-> fd_flags]

\* the slot of fd in a 0-based vector kept as a 1-based sequence
Slot(v, fd) == v[fd + 1]
SetSlot(v, fd, x) == [v EXCEPT ![fd + 1] = x]

FdOk(t, fd) == [ok |-> TRUE, err |-> None, fd |-> fd, t |-> t]
FdErr(t, e) == [ok |-> FALSE, err |-> e, fd |-> 0, t |-> t]

\* the first index >= from whose slot is None, or Len when there is none
FirstFree(v, from) ==
    LET free == {fd \in 0..(Len(v) - 1) : fd >= from /\ Slot(v, fd) = NoFile}
    IN  IF free = {} THEN Len(v) ELSE Min(free)

\* FDTable::alloc_with_flags
alloc_with_flags(t, file, flags) ==
    LET fd == FirstFree(t.files, 0)
    IN  IF fd < Len(t.files)
        THEN FdOk([files |-> SetSlot(t.files, fd, file),
                   fd_flags |-> SetSlot(t.fd_flags, fd, flags)], fd)
        ELSE IF fd >= MaxFds THEN FdErr(t, "TooManyOpenFiles")
        ELSE FdOk([files |-> Append(t.files, file), fd_flags |-> Append(t.fd_flags, flags)], fd)

\* FDTable::alloc
alloc(t, file) == alloc_with_flags(t, file, 0)

\* while files.len() < n { push(None) }
RECURSIVE grow(_, _)
grow(t, n) ==
    IF Len(t.files) >= n THEN t
    ELSE grow([files |-> Append(t.files, NoFile), fd_flags |-> Append(t.fd_flags, 0)], n)

\* FDTable::install_at_with_flags
install_at_with_flags(t, fd, file, flags) ==
    IF fd >= MaxFds THEN FdErr(t, "InvalidArgument")
    ELSE LET t1 == grow(t, fd + 1)
         IN  FdOk([files |-> SetSlot(t1.files, fd, file),
                   fd_flags |-> SetSlot(t1.fd_flags, fd, flags)], fd)

\* FDTable::get: the file of fd, or NoFile for BadFileDescriptor
get(t, fd) == IF fd < Len(t.files) THEN Slot(t.files, fd) ELSE NoFile

\* FDTable::close
close(t, fd) ==
    IF fd >= Len(t.files) \/ Slot(t.files, fd) = NoFile THEN FdErr(t, "BadFileDescriptor")
    ELSE FdOk([files |-> SetSlot(t.files, fd, NoFile), fd_flags |-> SetSlot(t.fd_flags, fd, 0)], fd)

\* FDTable::dup
dup(t, old_fd) ==
    IF get(t, old_fd) = NoFile THEN FdErr(t, "BadFileDescriptor")
    ELSE alloc(t, get(t, old_fd))

\* FDTable::dup_from
dup_from(t, old_fd, min_fd, flags) ==
    IF get(t, old_fd) = NoFile THEN FdErr(t, "BadFileDescriptor")
    ELSE LET file == get(t, old_fd)
             t1 == grow(t, min_fd)
             fd == FirstFree(t1.files, min_fd)
         IN  IF fd < Len(t1.files)
             THEN FdOk([files |-> SetSlot(t1.files, fd, file),
                        fd_flags |-> SetSlot(t1.fd_flags, fd, flags)], fd)
             ELSE IF fd >= MaxFds THEN FdErr(t1, "TooManyOpenFiles")
             ELSE FdOk([files |-> Append(t1.files, file),
                        fd_flags |-> Append(t1.fd_flags, flags)], fd)

\* FDTable::dup3 (flags already reduced to FdFlags by from_open_flags)
dup3(t, old_fd, new_fd, flags) ==
    IF old_fd = new_fd THEN FdErr(t, "InvalidArgument")
    ELSE IF get(t, old_fd) = NoFile THEN FdErr(t, "BadFileDescriptor")
    ELSE install_at_with_flags(close(t, new_fd).t, new_fd, get(t, old_fd), flags)

\* FDTable::dup2
dup2(t, old_fd, new_fd) ==
    IF old_fd = new_fd
    THEN IF get(t, old_fd) = NoFile THEN FdErr(t, "BadFileDescriptor") ELSE FdOk(t, new_fd)
    ELSE dup3(t, old_fd, new_fd, 0)

\* FDTable::close_exec
close_exec(t) ==
    [files |-> [i \in 1..Len(t.files) |->
                   IF i <= Len(t.fd_flags) /\ t.fd_flags[i] = CLOEXEC THEN NoFile ELSE t.files[i]],
     fd_flags |-> [i \in 1..Len(t.fd_flags) |->
                   IF i <= Len(t.files) /\ t.fd_flags[i] = CLOEXEC THEN 0 ELSE t.fd_flags[i]]]

OnlyFd == UNCHANGED <<frameVars, memVars, lockVars, pipeVars, extVars>>

FdCommit(op, file, r) ==
    /\ files' = r.t.files
    /\ fd_flags' = r.t.fd_flags
    /\ last' = [op |-> op, ok |-> r.ok, err |-> r.err, fd |-> r.fd, file |-> file, pre |-> files]

FdAlloc(file) ==
    /\ FdCommit("alloc", file, alloc(Table, file))
    /\ OnlyFd

FdAllocWithFlags(file, flags) ==
    /\ FdCommit("alloc_with_flags", file, alloc_with_flags(Table, file, flags))
    /\ OnlyFd

\* FDTable::install_at
FdInstallAt(fd, file) ==
    /\ FdCommit("install_at", file, install_at_with_flags(Table, fd, file, 0))
    /\ OnlyFd

FdDup(old_fd) ==
    /\ FdCommit("dup", get(Table, old_fd), dup(Table, old_fd))
    /\ OnlyFd

FdDupFrom(old_fd, min_fd, flags) ==
    /\ FdCommit("dup_from", get(Table, old_fd), dup_from(Table, old_fd, min_fd, flags))
    /\ OnlyFd

FdDup2(old_fd, new_fd) ==
    /\ FdCommit("dup2", get(Table, old_fd), dup2(Table, old_fd, new_fd))
    /\ OnlyFd

FdDup3(old_fd, new_fd, flags) ==
    /\ FdCommit("dup3", get(Table, old_fd), dup3(Table, old_fd, new_fd, flags))
    /\ OnlyFd

FdClose(fd) ==
    /\ FdCommit("close", NoFile, close(Table, fd))
    /\ OnlyFd

FdCloseExec ==
    /\ FdCommit("close_exec", NoFile, FdOk(close_exec(Table), 0))
    /\ OnlyFd

(***************************************************************************)
(* PipeRingBuffer and PipeFile                                             *)
(***************************************************************************)
DEFAULT_CAPACITY == 4096
MIN_CAPACITY == 4096
MAX_CAPACITY == 1048576
\* number of read and write calls in a run
MaxPipeCalls == 3

\* byte values written by the callers
PipeBytes == {"a", "b"}
\* buffer lengths passed to read and write
PipeLens == {0, 1, 4096}
\* sizes passed to set_pipe_size
PipeSizes == {4095, 4096, 8192, 1048576, 1048577}

\* VecDeque<u8> kept as a sequence of runs <<byte, count>>, count > 0, adjacent
\* runs of different bytes
RECURSIVE BufLen(_)
BufLen(runs) == IF runs = <<>> THEN 0 ELSE Head(runs)[2] + BufLen(Tail(runs))

\* push_back of n copies of byte b
push_back(runs, b, n) ==
    IF n = 0 THEN runs
    ELSE IF runs # <<>> /\ runs[Len(runs)][1] = b
         THEN [runs EXCEPT ![Len(runs)] = <<b, @[2] + n>>]
         ELSE Append(runs, <<b, n>>)

\* the first n bytes (n <= BufLen)
RECURSIVE take_front(_, _)
take_front(runs, n) ==
    IF n = 0 THEN <<>>
    ELSE IF Head(runs)[2] <= n
         THEN <<Head(runs)>> \o take_front(Tail(runs), n - Head(runs)[2])
         ELSE <<<<Head(runs)[1], n>>>>

\* n times pop_front (n <= BufLen)
RECURSIVE pop_front(_, _)
pop_front(runs, n) ==
    IF n = 0 THEN runs
    ELSE IF Head(runs)[2] <= n THEN pop_front(Tail(runs), n - Head(runs)[2])
         ELSE <<<<Head(runs)[1], Head(runs)[2] - n>>>> \o Tail(runs)

PB == [buffer |-> buffer, capacity |-> capacity,
       write_end_count |-> write_end_count, read_end_count |-> read_end_count]

\* PipeRingBuffer::new followed by the counts set in PipeFile::create_pair
create_pair ==
    [buffer |-> <<>>, capacity |-> DEFAULT_CAPACITY, write_end_count |-> 1, read_end_count |-> 1]

POk(pb, n, data) == [ok |-> TRUE, err |-> None, n |-> n, data |-> data, pb |-> pb]
PErr(pb, e) == [ok |-> FALSE, err |-> e, n |-> 0, data |-> <<>>, pb |-> pb]

\* set_capacity without the check against the buffered bytes
set_capacity_NoLenCheck(pb, new_capacity) ==
    IF new_capacity < MIN_CAPACITY \/ new_capacity > MAX_CAPACITY THEN PErr(pb, "InvalidArgument")
    ELSE POk([pb EXCEPT !.capacity = new_capacity], 0, <<>>)

\* PipeRingBuffer::set_capacity
set_capacity(pb, new_capacity) ==
    IF new_capacity < MIN_CAPACITY \/ new_capacity > MAX_CAPACITY THEN PErr(pb, "InvalidArgument")
    ELSE IF new_capacity < BufLen(pb.buffer) THEN PErr(pb, "InvalidArgument")
    ELSE POk([pb EXCEPT !.capacity = new_capacity], 0, <<>>)

\* PipeRingBuffer::read into a buffer of len bytes
PipeRingBuffer_read(pb, len) ==
    IF pb.buffer = <<>>
    THEN IF pb.write_end_count = 0 THEN POk(pb, 0, <<>>) ELSE POk(pb, 0, <<>>)
    ELSE LET nread == Min({len, BufLen(pb.buffer)})
         IN  POk([pb EXCEPT !.buffer = pop_front(@, nread)], nread, take_front(pb.buffer, nread))

PipeRingBuffer_write_WrongEnd(pb, b, len) ==
    IF pb.write_end_count = 0 THEN PErr(pb, "BrokenPipe")
    ELSE LET nwrite == Min({len, pb.capacity - BufLen(pb.buffer)})
         IN  POk([pb EXCEPT !.buffer = push_back(@, b, nwrite)], nwrite, <<>>)

\* PipeRingBuffer::write of len copies of byte b
PipeRingBuffer_write(pb, b, len) ==
    IF pb.read_end_count = 0 THEN PErr(pb, "BrokenPipe")
    ELSE LET available == pb.capacity - BufLen(pb.buffer)
         IN  IF available = 0 THEN POk(pb, 0, <<>>)
             ELSE LET nwrite == Min({len, available})
                  IN  POk([pb EXCEPT !.buffer = push_back(@, b, nwrite)], nwrite, <<>>)

\* PipeFile::read
PipeFile_read(end, pb, len) ==
    IF end # "Read" THEN PErr(pb, "InvalidArgument") ELSE PipeRingBuffer_read(pb, len)

\* PipeFile::write
PipeFile_write(end, pb, b, len) ==
    IF end # "Write" THEN PErr(pb, "InvalidArgument") ELSE PipeRingBuffer_write(pb, b, len)

\* Drop for PipeFile
PipeFile_drop(end, pb) ==
    IF end = "Read" THEN [pb EXCEPT !.read_end_count = @ - 1]
    ELSE [pb EXCEPT !.write_end_count = @ - 1]

OnlyPipe == UNCHANGED <<frameVars, memVars, lockVars, fdVars, extVars>>

SetPB(pb) ==
    /\ buffer' = pb.buffer
    /\ capacity' = pb.capacity
    /\ write_end_count' = pb.write_end_count
    /\ read_end_count' = pb.read_end_count

PipeObs(op, end, len, r) ==
    [op |-> op, end |-> end, len |-> len, ok |-> r.ok, err |-> r.err, n |-> r.n, data |-> r.data,
     preBuffer |-> buffer, preCapacity |-> capacity, preEnds |-> ends]

PipeRead(end, len) ==
    /\ end \in ends /\ pipeCalls < MaxPipeCalls
    /\ LET r == PipeFile_read(end, PB, len)
       IN  SetPB(r.pb) /\ last' = PipeObs("read", end, len, r)
    /\ pipeCalls' = pipeCalls + 1
    /\ UNCHANGED ends
    /\ OnlyPipe

PipeWrite(end, b, len) ==
    /\ end \in ends /\ pipeCalls < MaxPipeCalls
    /\ LET r == PipeFile_write(end, PB, b, len)
       IN  SetPB(r.pb) /\ last' = PipeObs("write", end, len, r)
    /\ pipeCalls' = pipeCalls + 1
    /\ UNCHANGED ends
    /\ OnlyPipe

\* PipeFile::set_pipe_size
PipeSetSize(end, size) ==
    /\ end \in ends
    /\ LET r == set_capacity(PB, size)
       IN  SetPB(r.pb) /\ last' = PipeObs("set_pipe_size", end, size, r)
    /\ UNCHANGED <<ends, pipeCalls>>
    /\ OnlyPipe

\* an endpoint is dropped
PipeDrop(end) ==
    /\ end \in ends
    /\ SetPB(PipeFile_drop(end, PB))
    /\ ends' = ends \ {end}
    /\ last' = [op |-> "drop", end |-> end]
    /\ UNCHANGED pipeCalls
    /\ OnlyPipe

(***************************************************************************)
(* tmpfs: TmpfsInode / TmpfsStats (crates/fs/src/tmpfs/inode.rs)           *)
(***************************************************************************)
\* fs_ops().page_size(), scaled down to a few bytes
TmpPageSize == 2
\* TmpfsStats.max_pages of the mounted file system (the limit M > 0)
TmpMaxPages == 2
\* frames the frame allocator manages below the tmpfs
TmpFrames == 2
\* frames that other kernel subsystems may hold at mount time
TmpEnvFrames == 1
\* regular files created in the root directory
TmpFiles == 2
\* largest offset + len of a write_at and largest size of a truncate
TmpMaxSize == 4

TmpInos == 1..TmpFiles

\* (size + page_size - 1) / page_size
PageCount(size) == (size + TmpPageSize - 1) \div TmpPageSize

\* Some(Arc::new(frame)): FrameTracker::new has cleared the frame
NewPage(ppn) == <<[ppn |-> ppn, bytes |-> [k \in 1..TmpPageSize |-> 0]]>>

\* data[from..to].iter().filter(is_some).count()
SomeCount(data, from, to) == Cardinality({k \in (from + 1)..to : data[k] # <<>>})

\* Vec::resize(n, None), called only to grow
resize(data, n) == [k \in 1..n |-> IF k <= Len(data) THEN data[k] ELSE <<>>]

\* Vec::truncate(n)
vec_truncate(data, n) == IF n < Len(data) THEN SubSeq(data, 1, n) ELSE data

\* dropping Option<Arc<FrameTracker>> values returns their frames to the allocator
RECURSIVE drop_pages(_, _)
drop_pages(fa, pages) ==
    IF pages = <<>> THEN fa
    ELSE drop_pages(IF Head(pages) = <<>> THEN fa ELSE dealloc_frame(fa, Head(pages)[1].ppn),
                    Tail(pages))

\* TmpfsInode::dec_allocated_pages (saturating_sub)
dec_allocated_pages(allocated, num) == IF allocated >= num THEN allocated - num ELSE 0

reserve_page_NoLimit(allocated) == [ok |-> TRUE, allocated |-> allocated + 1]

\* TmpfsInode::reserve_page, under the stats lock
reserve_page(allocated) ==
    IF TmpMaxPages # 0 /\ allocated >= TmpMaxPages
    THEN [ok |-> FALSE, allocated |-> allocated]
    ELSE [ok |-> TRUE, allocated |-> allocated + 1]

\* TmpfsInode::cancel_page_reservation
cancel_page_reservation(allocated) == dec_allocated_pages(allocated, 1)

\* the byte read_at copies out for file position p
byte_at(data, p) ==
    IF p \div TmpPageSize >= Len(data) \/ data[(p \div TmpPageSize) + 1] = <<>> THEN 0
    ELSE data[(p \div TmpPageSize) + 1][1].bytes[(p % TmpPageSize) + 1]

\* copy_nonoverlapping of write_len payload bytes (value 1) into the page
copy_in(page, page_offset, write_len) ==
    <<[page[1] EXCEPT !.bytes = [k \in 1..TmpPageSize |->
          IF k - 1 >= page_offset /\ k - 1 < page_offset + write_len THEN 1 ELSE @[k]]]>>

WriteIdle == [pc |-> "idle", offset |-> 0, len |-> 0, written |-> 0]

\* the inode is reachable through its entry in the root directory
TmAlive(i) == tmInodes[i].linked

\* a write_at call holds the data lock of inode i
DataLocked(i) == tmOp[i].pc \in {"loop", "alloc"}

OnlyTmp == UNCHANGED <<faLock, trackers, afCall, memVars, lockVars, fdVars, pipeVars, walkVars, shmVars, findVars, tlbVars, ext2Vars, ext3Vars>>
FaSame == UNCHANGED <<total_frames, bitmap, allocated_count, last_alloc_hint>>

\* write_at, loop variables of the current iteration
page_index(op) == (op.offset + op.written) \div TmpPageSize
page_offset(op) == (op.offset + op.written) % TmpPageSize
write_len(op) == Min({TmpPageSize - page_offset(op), op.len - op.written})

\* read_at: the bytes copied into buf
read_at(inode, offset, len) ==
    IF offset >= inode.size THEN <<>>
    ELSE [k \in 1..Min({len, inode.size - offset}) |-> byte_at(inode.data, offset + k - 1)]

\* write_at: entry, type check, data.lock(); pre keeps the bytes readable at
\* the entry of the call
TmpWriteBegin(i, offset, len) ==
    /\ ~tmPanicked /\ TmAlive(i) /\ tmOp[i].pc = "idle"
    /\ tmOp' = [tmOp EXCEPT ![i] = [pc |-> IF len = 0 THEN "size" ELSE "loop",
                                    offset |-> offset, len |-> len, written |-> 0,
                                    pre |-> read_at(tmInodes[i], 0, tmInodes[i].size)]]
    /\ last' = [op |-> "write_at.step"]
    /\ UNCHANGED <<tmAllocated, tmInodes, tmWritten, tmPanicked>>
    /\ FaSame /\ OnlyTmp

\* write_at: the copy into data[page_index] that ends a loop iteration
WriteCopy(i, data1) ==
    /\ tmInodes' = [tmInodes EXCEPT ![i].data =
                       [data1 EXCEPT ![page_index(tmOp[i]) + 1] =
                           copy_in(@, page_offset(tmOp[i]), write_len(tmOp[i]))]]
    /\ tmOp' = [tmOp EXCEPT ![i].written = @ + write_len(tmOp[i]),
                            ![i].pc = IF tmOp[i].written + write_len(tmOp[i]) = tmOp[i].len
                                      THEN "size" ELSE "loop"]
    /\ tmWritten' = [tmWritten EXCEPT ![i] = @ \cup
                       {p \in 0..(tmInodes[i].size - 1) :
                           /\ p >= tmOp[i].offset + tmOp[i].written
                           /\ p < tmOp[i].offset + tmOp[i].written + write_len(tmOp[i])}]

\* write_at returns Err(NoSpace) out of the loop; the data guard is dropped
WriteNoSpace(i, data1, charged, at) ==
    /\ tmInodes' = [tmInodes EXCEPT ![i].data = data1]
    /\ tmOp' = [tmOp EXCEPT ![i] = WriteIdle]
    /\ last' = [op |-> "write_at", i |-> i, ok |-> FALSE, err |-> "NoSpace", ret |-> 0,
                charged |-> charged, at |-> at, pre |-> tmOp[i].pre]
    /\ UNCHANGED <<tmWritten, tmPanicked>>

\* write_at: one loop iteration up to reserve_page (or the copy into an existing page)
WriteStep(i, data1, r) ==
    IF data1[page_index(tmOp[i]) + 1] # <<>>
    THEN /\ WriteCopy(i, data1)
         /\ last' = [op |-> "write_at.step"]
         /\ UNCHANGED <<tmAllocated, tmPanicked>>
    ELSE IF r.ok
    THEN /\ tmAllocated' = r.allocated
         /\ tmInodes' = [tmInodes EXCEPT ![i].data = data1]
         /\ tmOp' = [tmOp EXCEPT ![i].pc = "alloc"]
         /\ last' = [op |-> "reserve_page", i |-> i, ok |-> TRUE, charged |-> tmAllocated]
         /\ UNCHANGED <<tmWritten, tmPanicked>>
    ELSE /\ WriteNoSpace(i, data1, tmAllocated, "reserve_page")
         /\ UNCHANGED tmAllocated

TmpWriteStep(i) ==
    /\ ~tmPanicked /\ tmOp[i].pc = "loop"
    /\ WriteStep(i, IF page_index(tmOp[i]) >= Len(tmInodes[i].data)
                    THEN resize(tmInodes[i].data, page_index(tmOp[i]) + 1)
                    ELSE tmInodes[i].data,
                 reserve_page(tmAllocated))
    /\ FaSame /\ OnlyTmp

\* write_at: alloc_frame() after a successful reserve_page
WriteAlloc(i, r) ==
    /\ SetFA(r.fa)
    /\ IF r.ok
       THEN /\ WriteCopy(i, [tmInodes[i].data EXCEPT ![page_index(tmOp[i]) + 1] = NewPage(r.ppn)])
            /\ last' = [op |-> "write_at.step"]
            /\ UNCHANGED <<tmAllocated, tmPanicked>>
       ELSE /\ tmAllocated' = cancel_page_reservation(tmAllocated)
            /\ WriteNoSpace(i, tmInodes[i].data, tmAllocated, "alloc_frame")

TmpWriteAlloc(i) ==
    /\ ~tmPanicked /\ tmOp[i].pc = "alloc"
    /\ WriteAlloc(i, alloc_frame(FA))
    /\ OnlyTmp

\* write_at: after drop(data), the size update under the metadata lock; Ok(bytes_written)
TmpWriteSize(i) ==
    /\ ~tmPanicked /\ tmOp[i].pc = "size"
    /\ tmInodes' = [tmInodes EXCEPT ![i].size =
                       IF @ >= tmOp[i].offset + tmOp[i].written THEN @
                       ELSE tmOp[i].offset + tmOp[i].written]
    /\ tmWritten' = [tmWritten EXCEPT ![i] = @ \cup
                       {p \in 0..TmpMaxSize : /\ p >= tmOp[i].offset
                                              /\ p < tmOp[i].offset + tmOp[i].written}]
    /\ tmOp' = [tmOp EXCEPT ![i] = WriteIdle]
    /\ last' = [op |-> "write_at", i |-> i, ok |-> TRUE, err |-> None, ret |-> tmOp[i].written,
                charged |-> tmAllocated, at |-> "return"]
    /\ UNCHANGED <<tmAllocated, tmPanicked>>
    /\ FaSame /\ OnlyTmp

TmpReadAt(i, offset, len) ==
    /\ ~tmPanicked /\ TmAlive(i) /\ ~DataLocked(i)
    /\ last' = [op |-> "read_at", ok |-> TRUE, offset |-> offset,
                bytes |-> read_at(tmInodes[i], offset, len),
                written |-> tmWritten[i]]
    /\ UNCHANGED tmpVars
    /\ FaSame /\ OnlyTmp

\* the observation of a truncate call: its result, the size and charged count
\* before it, and the number of data pages it had to release
TruncateResult(i, new_size, ok, err) ==
    [op |-> "truncate", i |-> i, ok |-> ok, err |-> err, new_size |-> new_size,
     preSize |-> tmInodes[i].size, preAllocated |-> tmAllocated,
     held |-> SomeCount(tmInodes[i].data,
                        Min({PageCount(new_size), Len(tmInodes[i].data)}), Len(tmInodes[i].data))]

\* truncate, the shrinking branch: the slice data[new_page_count..min(old_page_count, len)]
\* panics when its start lies behind its end
truncate_shrink(i, new_size, new_page_count, hi) ==
    IF new_page_count > hi
    THEN /\ tmPanicked' = TRUE
         /\ last' = TruncateResult(i, new_size, FALSE, "panic")
         /\ UNCHANGED <<tmAllocated, tmInodes, tmOp, tmWritten>>
         /\ FaSame
    ELSE /\ tmInodes' = [tmInodes EXCEPT ![i].data = vec_truncate(@, new_page_count),
                                         ![i].size = new_size]
         /\ SetFA(drop_pages(FA, SubSeq(tmInodes[i].data, new_page_count + 1,
                                        Len(tmInodes[i].data))))
         /\ tmAllocated' = dec_allocated_pages(tmAllocated,
                              SomeCount(tmInodes[i].data, new_page_count, hi))
         /\ tmWritten' = [tmWritten EXCEPT ![i] = {p \in @ : p < new_size}]
         /\ last' = TruncateResult(i, new_size, TRUE, None)
         /\ UNCHANGED <<tmOp, tmPanicked>>

\* truncate with new_size >= old_size: only the size changes
truncate_grow(i, new_size) ==
    /\ tmInodes' = [tmInodes EXCEPT ![i].size = new_size]
    /\ tmWritten' = [tmWritten EXCEPT ![i] = {p \in @ : p < new_size}]
    /\ last' = TruncateResult(i, new_size, TRUE, None)
    /\ UNCHANGED <<tmAllocated, tmOp, tmPanicked>>
    /\ FaSame

TmpTruncate(i, new_size) ==
    /\ ~tmPanicked /\ TmAlive(i)
    /\ IF new_size < tmInodes[i].size
       THEN /\ ~DataLocked(i)
            /\ truncate_shrink(i, new_size, PageCount(new_size),
                               Min({PageCount(tmInodes[i].size), Len(tmInodes[i].data)}))
       ELSE truncate_grow(i, new_size)
    /\ OnlyTmp

\* the last Arc<TmpfsInode> is gone: the data vector and its frames are dropped
inode_drop(inode) == [inode EXCEPT !.data = <<>>, !.size = 0, !.linked = FALSE]

\* unlink(name) on the root directory; no other reference to the child is held
TmpUnlink(i) ==
    /\ ~tmPanicked
    /\ IF ~tmInodes[i].linked
       THEN /\ last' = [op |-> "unlink", i |-> i, ok |-> FALSE, err |-> "NotFound"]
            /\ UNCHANGED tmpVars /\ FaSame
       ELSE /\ tmOp[i].pc = "idle"
            /\ tmAllocated' = dec_allocated_pages(tmAllocated,
                                 SomeCount(tmInodes[i].data, 0, Len(tmInodes[i].data)))
            /\ tmInodes' = [tmInodes EXCEPT ![i] = inode_drop(@)]
            /\ tmWritten' = [tmWritten EXCEPT ![i] = {}]
            /\ SetFA(drop_pages(FA, tmInodes[i].data))
            /\ last' = [op |-> "unlink", i |-> i, ok |-> TRUE, err |-> None]
            /\ UNCHANGED <<tmOp, tmPanicked>>
    /\ OnlyTmp

\* create(name, mode) on the root directory: a new empty regular file
TmpCreate(i) ==
    /\ ~tmPanicked
    /\ IF tmInodes[i].linked
       THEN /\ last' = [op |-> "create", i |-> i, ok |-> FALSE, err |-> "AlreadyExists"]
            /\ UNCHANGED tmInodes
       ELSE /\ last' = [op |-> "create", i |-> i, ok |-> TRUE, err |-> None]
            /\ tmInodes' = [tmInodes EXCEPT ![i] = [size |-> 0, data |-> <<>>, linked |-> TRUE]]
    /\ UNCHANGED <<tmAllocated, tmOp, tmWritten, tmPanicked>>
    /\ FaSame /\ OnlyTmp

\* symlink_inode.write_at(0, target) on the inode symlink has just built, which
\* no other caller can reach: the loop of write_at from offset 0, one page per
\* iteration (reserve_page, alloc_frame, copy), as the record
\* [ok, allocated, fa, data]
RECURSIVE write_fresh(_, _, _, _, _)
RECURSIVE write_fresh_reserved(_, _, _, _, _, _)
RECURSIVE write_fresh_frame(_, _, _, _, _)

write_fresh(allocated, fa, data, len, written) ==
    IF written >= len THEN [ok |-> TRUE, allocated |-> allocated, fa |-> fa, data |-> data]
    ELSE write_fresh_reserved(allocated, fa, data, len, written, reserve_page(allocated))

write_fresh_reserved(allocated, fa, data, len, written, r) ==
    IF ~r.ok THEN [ok |-> FALSE, allocated |-> allocated, fa |-> fa, data |-> data]
    ELSE write_fresh_frame(r.allocated, data, len, written, alloc_frame(fa))

write_fresh_frame(allocated, data, len, written, a) ==
    IF ~a.ok
    THEN [ok |-> FALSE, allocated |-> cancel_page_reservation(allocated), fa |-> a.fa,
          data |-> data]
    ELSE write_fresh(allocated, a.fa,
                     Append(data, copy_in(NewPage(a.ppn), 0, Min({TmpPageSize, len - written}))),
                     len, written + Min({TmpPageSize, len - written}))

\* symlink after its write_at: on Ok the inode is inserted under the name; on
\* Err the inode is dropped, which returns its frames to the allocator and
\* leaves the charged count as write_at left it
SymlinkDone(i, len, w) ==
    IF w.ok
    THEN /\ tmInodes' = [tmInodes EXCEPT ![i] = [size |-> len, data |-> w.data, linked |-> TRUE]]
         /\ tmWritten' = [tmWritten EXCEPT ![i] = 0..(len - 1)]
         /\ tmAllocated' = w.allocated
         /\ SetFA(w.fa)
         /\ last' = [op |-> "symlink", i |-> i, ok |-> TRUE, err |-> None, len |-> len,
                     held |-> Len(w.data)]
    ELSE /\ UNCHANGED <<tmInodes, tmWritten>>
         /\ tmAllocated' = w.allocated
         /\ SetFA(drop_pages(w.fa, w.data))
         /\ last' = [op |-> "symlink", i |-> i, ok |-> FALSE, err |-> "NoSpace", len |-> len,
                     held |-> Len(w.data)]

\* symlink(name, target) on the root directory, target of len bytes
TmpSymlink(i, len) ==
    /\ ~tmPanicked
    /\ IF tmInodes[i].linked
       THEN /\ last' = [op |-> "symlink", i |-> i, ok |-> FALSE, err |-> "AlreadyExists",
                        len |-> len, held |-> 0]
            /\ UNCHANGED <<tmAllocated, tmInodes, tmWritten>> /\ FaSame
       ELSE SymlinkDone(i, len, write_fresh(tmAllocated, FA, <<>>, len, 0))
    /\ UNCHANGED <<tmOp, tmPanicked>>
    /\ OnlyTmp

(***************************************************************************)
(* Path walk: vfs_walk / resolve_component (crates/vfs/src/path.rs)        *)
(***************************************************************************)
MAX_SYMLINK_DEPTH == 8

\* PathComponent: Root is "/", Current is ".", Parent is "..", Normal(name) is the name
ChainNames == <<"s1", "s2", "s3", "s4", "s5", "s6", "s7", "s8", "s9">>
WalkNames == {"f", "d", "up", "loop", "a", "b", "nope"} \cup {ChainNames[k] : k \in DOMAIN ChainNames}

\* the mounted tree: a regular file f, the chain s1 -> f, s(k+1) -> sk, the
\* cycles loop -> loop and a -> /b -> /a, a directory d with the link up -> ..
FsNode(type, parent, target) == [type |-> type, parent |-> parent, target |-> target]
FsTree ==
    [n \in {"/"} \cup (WalkNames \ {"nope"}) |->
        CASE n = "/"    -> FsNode("Directory", <<>>, <<>>)
          [] n = "d"    -> FsNode("Directory", <<"/">>, <<>>)
          [] n = "f"    -> FsNode("File", <<"/">>, <<>>)
          [] n = "up"   -> FsNode("Symlink", <<"d">>, <<"..">>)
          [] n = "loop" -> FsNode("Symlink", <<"/">>, <<"loop">>)
          [] n = "a"    -> FsNode("Symlink", <<"/">>, <<"/", "b">>)
          [] n = "b"    -> FsNode("Symlink", <<"/">>, <<"/", "a">>)
          [] n = "s1"   -> FsNode("Symlink", <<"/">>, <<"f">>)
          [] OTHER      -> FsNode("Symlink", <<"/">>,
                                  <<ChainNames[(CHOOSE k \in DOMAIN ChainNames : ChainNames[k] = n) - 1]>>)]

\* resolve_component: Ok(dentry) or the error of inode.lookup
resolve_component(base, component) ==
    CASE component = "/"  -> [ok |-> TRUE, dentry |-> "/", err |-> None]
      [] component = "."  -> [ok |-> TRUE, dentry |-> base, err |-> None]
      [] component = ".." -> [ok |-> TRUE, err |-> None,
                              dentry |-> IF FsTree[base].parent = <<>> THEN base
                                         ELSE FsTree[base].parent[1]]
      [] OTHER ->
           IF FsTree[base].type # "Directory"
           THEN [ok |-> FALSE, dentry |-> base, err |-> "NotDirectory"]
           ELSE IF component \in DOMAIN FsTree /\ FsTree[component].parent = <<base>>
           THEN [ok |-> TRUE, dentry |-> component, err |-> None]
           ELSE [ok |-> FALSE, dentry |-> base, err |-> "NotFound"]

symlink_limit_reached_OffByOne(symlink_depth) == symlink_depth > MAX_SYMLINK_DEPTH

\* symlink_depth >= MAX_SYMLINK_DEPTH
symlink_limit_reached(symlink_depth) == symlink_depth >= MAX_SYMLINK_DEPTH

WalkIdle == [pc |-> "idle", cur |-> "/", comps |-> <<>>, i |-> 0, symlink_depth |-> 0,
             follow |-> TRUE, ok |-> TRUE, err |-> None, expansions |-> 0]

OnlyWalk == UNCHANGED <<frameVars, memVars, lockVars, fdVars, pipeVars, tmpVars, shmVars, findVars, tlbVars,
                        ext2Vars, ext3Vars>>

\* vfs_lookup / vfs_lookup_no_follow: the walk starts at the root dentry
WalkBegin(components, follow_last_symlink) ==
    /\ walk.pc # "walking"
    /\ walk' = [WalkIdle EXCEPT !.pc = "walking", !.comps = components,
                                !.follow = follow_last_symlink]
    /\ last' = [op |-> "vfs_walk.begin"]
    /\ OnlyWalk

\* the symlink branch of the loop body
walk_expand(w, dentry) ==
    IF symlink_limit_reached(w.symlink_depth)
    THEN [w EXCEPT !.pc = "done", !.ok = FALSE, !.err = "TooManySymlinks", !.cur = dentry]
    ELSE [w EXCEPT !.symlink_depth = @ + 1, !.expansions = @ + 1,
                   !.cur = IF FsTree[dentry].target[1] = "/" THEN "/"
                           ELSE IF FsTree[dentry].parent = <<>> THEN "/"
                           ELSE FsTree[dentry].parent[1],
                   !.comps = FsTree[dentry].target \o SubSeq(w.comps, w.i + 2, Len(w.comps)),
                   !.i = 0]

\* one iteration of the while loop of vfs_walk
walk_step(w, r) ==
    IF ~r.ok THEN [w EXCEPT !.pc = "done", !.ok = FALSE, !.err = r.err]
    ELSE IF FsTree[r.dentry].type = "Symlink" /\ (w.follow \/ w.i + 1 # Len(w.comps))
    THEN walk_expand(w, r.dentry)
    ELSE [w EXCEPT !.cur = r.dentry, !.i = @ + 1]

WalkStep ==
    /\ walk.pc = "walking" /\ walk.i < Len(walk.comps)
    /\ walk' = walk_step(walk, resolve_component(walk.cur, walk.comps[walk.i + 1]))
    /\ last' = [op |-> "vfs_walk.step"]
    /\ OnlyWalk

\* the loop condition fails: Ok(current_dentry)
WalkReturn ==
    /\ walk.pc = "walking" /\ walk.i >= Len(walk.comps)
    /\ walk' = [walk EXCEPT !.pc = "done"]
    /\ last' = [op |-> "vfs_walk"]
    /\ OnlyWalk

(***************************************************************************)
(* SharedMemory (os/src/ipc/shared_memory.rs)                              *)
(***************************************************************************)
OnlyShm == UNCHANGED <<memVars, lockVars, fdVars, pipeVars, tmpVars, walkVars, findVars, tlbVars,
                       ext2Vars, ext3Vars>>

\* SharedMemory::new after alloc_frames(pages): r is the result of the loop of
\* FrameAllocator::alloc_frames.  Some(frames) builds the segment; None reaches
\* expect(), which panics; a partial vector is dropped inside alloc_frames.
SharedMemory_alloc(pages, r) ==
    /\ SetFA(r.fa)
    /\ IF r.ok
       THEN /\ trackers' = trackers \o SingleTrackers(r.frames)
            /\ last' = [op |-> "SharedMemory::new", ok |-> TRUE, pages |-> pages]
            /\ UNCHANGED <<faLock, afCall, shmPanicked>>
       ELSE IF r.frames = <<>>
       THEN /\ shmPanicked' = TRUE
            /\ last' = [op |-> "SharedMemory::new", ok |-> FALSE, pages |-> pages]
            /\ UNCHANGED <<faLock, afCall, trackers>>
       ELSE /\ faLock' = TRUE
            /\ afCall' = [pc |-> "drop", n |-> pages, partial |-> SingleTrackers(r.frames),
                          freeBefore |-> total_frames - allocated_count,
                          preBitmap |-> bitmap, preCount |-> allocated_count]
            /\ last' = [op |-> "SharedMemory::new.alloc_frames"]
            /\ UNCHANGED <<trackers, shmPanicked>>

\* SharedMemory::new(pages)
SharedMemoryNew(pages) ==
    /\ ~shmPanicked /\ FaLockFree /\ Len(trackers) + pages <= MaxTrackers + 1
    /\ SharedMemory_alloc(pages, alloc_frames_loop(FA, pages, <<>>))
    /\ OnlyShm


(***************************************************************************)
(* FDTable with concurrent callers.  Every method takes files.lock() and   *)
(* fd_flags.lock() for its own body, so a method is one atomic step;       *)
(* dup3 is three methods in a row (get, close, install_at_with_flags) and  *)
(* clone_table takes the two locks one after the other.                    *)
(***************************************************************************)
FdcCpus == 1..2

FdcIdle == [pc |-> "idle"]

InitFdc == [calls |-> [c \in FdcCpus |-> FdcIdle]]

\* FDTable::set_fd_flags
set_fd_flags(t, fd, flags) ==
    IF fd >= Len(t.files) \/ Slot(t.files, fd) = NoFile THEN FdErr(t, "BadFileDescriptor")
    ELSE FdOk([files |-> t.files, fd_flags |-> SetSlot(t.fd_flags, fd, flags)], fd)

\* a step of CPU c that leaves the table as t and the call of c as call; every
\* clone_table call in progress on another CPU notes the flag vector the table
\* holds while its file vector is the one the call has copied
FdcCommit(c, call, t) ==
    /\ files' = t.files
    /\ fd_flags' = t.fd_flags
    /\ fdc' = [fdc EXCEPT !.calls = [d \in FdcCpus |->
                  IF d = c THEN call
                  ELSE IF fdc.calls[d].pc = "clone_flags"
                       THEN [fdc.calls[d] EXCEPT !.seen =
                                IF t.files = fdc.calls[d].files THEN @ \cup {t.fd_flags} ELSE @]
                       ELSE fdc.calls[d]]]

FdcAt(c, pc) == fdc.calls[c].pc = pc

\* alloc(file) by CPU c
FdcAlloc(c, file) ==
    /\ FdcAt(c, "idle")
    /\ FdcCommit(c, FdcIdle, alloc(Table, file).t)
    /\ last' = [op |-> "alloc", cpu |-> c, ok |-> alloc(Table, file).ok,
                fd |-> alloc(Table, file).fd, file |-> file]
    /\ OnlyFdc

\* close(fd) by CPU c
FdcClose(c, fd) ==
    /\ FdcAt(c, "idle")
    /\ FdcCommit(c, FdcIdle, close(Table, fd).t)
    /\ last' = [op |-> "close", cpu |-> c, ok |-> close(Table, fd).ok, fd |-> fd]
    /\ OnlyFdc

\* set_fd_flags(fd, flags) by CPU c
FdcSetFdFlags(c, fd, flags) ==
    /\ FdcAt(c, "idle")
    /\ FdcCommit(c, FdcIdle, set_fd_flags(Table, fd, flags).t)
    /\ last' = [op |-> "set_fd_flags", cpu |-> c, ok |-> set_fd_flags(Table, fd, flags).ok,
                fd |-> fd]
    /\ OnlyFdc

\* dup3: the old_fd == new_fd check and self.get(old_fd)?
Dup3Get(c, old_fd, new_fd, flags) ==
    /\ FdcAt(c, "idle")
    /\ IF old_fd = new_fd
       THEN /\ FdcCommit(c, FdcIdle, Table)
            /\ last' = [op |-> "dup3", cpu |-> c, ok |-> FALSE, err |-> "InvalidArgument",
                        fd |-> new_fd, replaced |-> NoFile]
       ELSE IF get(Table, old_fd) = NoFile
       THEN /\ FdcCommit(c, FdcIdle, Table)
            /\ last' = [op |-> "dup3", cpu |-> c, ok |-> FALSE, err |-> "BadFileDescriptor",
                        fd |-> new_fd, replaced |-> NoFile]
       ELSE /\ FdcCommit(c, [pc |-> "dup3_close", file |-> get(Table, old_fd),
                             new_fd |-> new_fd, flags |-> flags], Table)
            /\ UNCHANGED last
    /\ OnlyFdc

\* dup3: let _ = self.close(new_fd)
Dup3Close(c) ==
    /\ FdcAt(c, "dup3_close")
    /\ FdcCommit(c, [fdc.calls[c] EXCEPT !.pc = "dup3_install"],
                 close(Table, fdc.calls[c].new_fd).t)
    /\ UNCHANGED last
    /\ OnlyFdc

\* dup3: self.install_at_with_flags(new_fd, file, fd_flags)?; Ok(new_fd).
\* replaced is the file the slot held when install overwrote it
Dup3Install(c) ==
    /\ FdcAt(c, "dup3_install")
    /\ LET call == fdc.calls[c]
           r == install_at_with_flags(Table, call.new_fd, call.file, call.flags) IN
       /\ FdcCommit(c, FdcIdle, r.t)
       /\ last' = [op |-> "dup3", cpu |-> c, ok |-> r.ok, err |-> r.err, fd |-> call.new_fd,
                   replaced |-> get(Table, call.new_fd)]
    /\ OnlyFdc

\* clone_table: self.files.lock().clone(); the guard is dropped at the end of
\* the statement.  seen collects the flag vectors the source holds during the
\* call at the instants its file vector is the copied one
CloneTableFiles(c) ==
    /\ FdcAt(c, "idle")
    /\ FdcCommit(c, [pc |-> "clone_flags", files |-> files, seen |-> {fd_flags}], Table)
    /\ UNCHANGED last
    /\ OnlyFdc

\* clone_table: self.fd_flags.lock().clone() and the new FDTable
CloneTableFlags(c) ==
    /\ FdcAt(c, "clone_flags")
    /\ FdcCommit(c, FdcIdle, Table)
    /\ last' = [op |-> "clone_table", cpu |-> c, files |-> fdc.calls[c].files,
                fd_flags |-> fd_flags, seen |-> fdc.calls[c].seen]
    /\ OnlyFdc

(***************************************************************************)
(* GLOBAL_WORK_QUEUE (os/src/kernel/task/work_queue.rs): a SpinLock around *)
(* the WorkQueue.  Callers 1..WqWorkers are kworker threads, the others    *)
(* schedule work.  lock is the caller that holds the spin lock, 0 when     *)
(* free.  A work item is <<id, kind>>; an item of kind "again" schedules   *)
(* one more item from inside its function.                                  *)
(***************************************************************************)
WqWorkers == 2
WqCallers == 1..(WqWorkers + 1)

\* number of schedule_work calls explored
MaxWqItems == 3

\* WorkQueue::new, then each kworker has passed add_worker(current_task())
InitWq ==
    [lock |-> 0, work_queue |-> <<>>, sleeping |-> 0, next_id |-> 1,
     state |-> [w \in 1..WqWorkers |-> "Running"],
     pc |-> [p \in WqCallers |-> IF p <= WqWorkers THEN "loop" ELSE "idle"],
     cur |-> [p \in WqCallers |-> <<>>],
     executed |-> [i \in 1..MaxWqItems |-> 0]]

\* the first worker whose task state is Interruptible, woken by
\* wake_up_with_block: its state becomes Running
wake_first(state) ==
    LET asleep == {w \in 1..WqWorkers : state[w] = "Interruptible"} IN
    IF asleep = {} THEN state
    ELSE [state EXCEPT ![CHOOSE w \in asleep : \A v \in asleep : w <= v] = "Running"]

\* WorkQueue::schedule_work
schedule_work(q, work) ==
    [q EXCEPT !.work_queue = Append(@, work),
              !.state = IF q.sleeping > 0 THEN wake_first(@) ELSE @]

\* a thread decides to schedule a work item of the given kind
ScheduleWorkCall(p, kind) ==
    /\ p > WqWorkers
    /\ wq.pc[p] = "idle"
    /\ wq.next_id <= MaxWqItems
    /\ wq' = [wq EXCEPT !.pc[p] = "schedule", !.cur[p] = <<wq.next_id, kind>>,
                        !.next_id = @ + 1]
    /\ UNCHANGED last
    /\ OnlyWq

\* GLOBAL_WORK_QUEUE.lock().schedule_work(work), by a thread or by the
\* function of a work item that a kworker is running; lock() spins until the
\* lock is free, the guard is dropped at the end of the statement
ScheduleWork(p) ==
    /\ wq.pc[p] = "schedule"
    /\ wq.lock = 0
    /\ wq' = [schedule_work(wq, wq.cur[p]) EXCEPT
                 !.pc[p] = IF p <= WqWorkers THEN "work_done" ELSE "idle",
                 !.cur[p] = <<>>]
    /\ last' = [op |-> "schedule_work", caller |-> p, work |-> wq.cur[p]]
    /\ OnlyWq

\* kworker: let mut queue = GLOBAL_WORK_QUEUE.lock(); pop_front().  With a
\* work item the guard stays alive while the item runs; with an empty queue
\* sleeping is raised, the task is put to sleep and the guard dropped
KworkerLock(w) ==
    /\ w <= WqWorkers
    /\ wq.pc[w] = "loop"
    /\ wq.lock = 0
    /\ IF wq.work_queue # <<>>
       THEN wq' = [wq EXCEPT !.lock = w, !.work_queue = Tail(@), !.cur[w] = Head(wq.work_queue),
                             !.pc[w] = "work"]
       ELSE wq' = [wq EXCEPT !.sleeping = @ + 1, !.state[w] = "Interruptible",
                             !.pc[w] = "yield"]
    /\ UNCHANGED last
    /\ OnlyWq

\* kworker: (work.task)() with the queue guard held; an item of kind "again"
\* goes on to schedule the item that follows it
KworkerRun(w) ==
    /\ wq.pc[w] = "work"
    /\ LET work == wq.cur[w] IN
       /\ IF work[2] = "again" /\ wq.next_id <= MaxWqItems
          THEN wq' = [wq EXCEPT !.executed[work[1]] = @ + 1,
                                !.cur[w] = <<wq.next_id, "plain">>, !.next_id = @ + 1,
                                !.pc[w] = "schedule"]
          ELSE wq' = [wq EXCEPT !.executed[work[1]] = @ + 1, !.cur[w] = <<>>,
                                !.pc[w] = "work_done"]
       /\ last' = [op |-> "work", worker |-> w, work |-> work]
    /\ OnlyWq

\* kworker: the work function has returned; the end of the loop body drops the guard
KworkerUnlock(w) ==
    /\ wq.pc[w] = "work_done"
    /\ wq' = [wq EXCEPT !.lock = 0, !.pc[w] = "loop"]
    /\ UNCHANGED last
    /\ OnlyWq

\* kworker: yield_task() returns once the task has been woken
KworkerYield(w) ==
    /\ wq.pc[w] = "yield"
    /\ wq.state[w] = "Running"
    /\ wq' = [wq EXCEPT !.pc[w] = "woken"]
    /\ UNCHANGED last
    /\ OnlyWq

\* kworker: GLOBAL_WORK_QUEUE.lock().sleeping -= 1
KworkerWoken(w) ==
    /\ wq.pc[w] = "woken"
    /\ wq.lock = 0
    /\ wq' = [wq EXCEPT !.sleeping = @ - 1, !.pc[w] = "loop"]
    /\ UNCHANGED last
    /\ OnlyWq

\* the steps of caller p
WqStep(p) ==
    \/ ScheduleWork(p) \/ KworkerLock(p) \/ KworkerRun(p) \/ KworkerUnlock(p)
    \/ KworkerYield(p) \/ KworkerWoken(p)

(***************************************************************************)
(* File-backed MappingAreas (mapping_area.rs): the vpn_range and the       *)
(* MmapFile {offset, len} of the areas cut out of one mmap of a file by    *)
(* partial_unmap, split_at and partial_change_permission.  Offsets and     *)
(* lengths are in bytes.                                                   *)
(***************************************************************************)
\* pages of the mmap
MaxFbaPages == 4
\* bytes per page
FbaPageSize == 2

\* MappingArea::new(range, UserMmap, Framed, perm, Some(MmapFile {offset, len, ..}))
FbaArea(start, end, perm, offset, len) ==
    [start |-> start, end |-> end, perm |-> perm, offset |-> offset, len |-> len]

\* mmap of MaxFbaPages pages of the file from its second page on, at VPN 1
InitFba ==
    [areas |-> {FbaArea(1, 1 + MaxFbaPages, "rw", FbaPageSize, MaxFbaPages * FbaPageSize)}]

\* load_from_file / sync_file: the file offset used for vpn
file_offset(area, vpn) == area.offset + (vpn - area.start) * FbaPageSize

\* the file offset the mmap gave to vpn
mmap_file_offset(vpn) == FbaPageSize + (vpn - 1) * FbaPageSize

FbaMax(a, b) == IF a < b THEN b ELSE a
FbaMin(a, b) == IF a < b THEN a ELSE b

\* MappingArea::partial_unmap: the set of areas that remain
partial_unmap(area, start_vpn, end_vpn) ==
    LET unmap_start == FbaMax(start_vpn, area.start)
        unmap_end == FbaMin(end_vpn, area.end)
        left_pages == unmap_start - area.start
        middle_pages == unmap_end - unmap_start IN
    IF unmap_start >= unmap_end THEN {area}
    ELSE IF unmap_start = area.start /\ unmap_end = area.end THEN {}
    ELSE IF unmap_start = area.start THEN {[area EXCEPT !.start = unmap_end]}
    ELSE IF unmap_end = area.end THEN {[area EXCEPT !.end = unmap_start]}
    ELSE {FbaArea(area.start, unmap_start, area.perm, area.offset, left_pages * FbaPageSize),
          FbaArea(unmap_end, area.end, area.perm,
                  area.offset + (left_pages + middle_pages) * FbaPageSize,
                  area.len - (left_pages + middle_pages) * FbaPageSize)}

\* MappingArea::split_at: the two halves, or the area itself on Err(InvalidAddress)
split_at(area, split_vpn) ==
    LET left_pages == split_vpn - area.start IN
    IF split_vpn < area.start \/ split_vpn >= area.end THEN {area}
    ELSE IF split_vpn = area.start \/ split_vpn = area.end THEN {area}
    ELSE {FbaArea(area.start, split_vpn, area.perm, area.offset, left_pages * FbaPageSize),
          FbaArea(split_vpn, area.end, area.perm, area.offset + left_pages * FbaPageSize,
                  area.len - left_pages * FbaPageSize)}

\* MappingArea::partial_change_permission on a Framed area: left, middle, right
fba_change_permission(area, start_vpn, end_vpn, new_perm) ==
    LET change_start == FbaMax(start_vpn, area.start)
        change_end == FbaMin(end_vpn, area.end)
        left_pages == change_start - area.start
        middle_pages == change_end - change_start IN
    IF change_start >= change_end THEN {area}
    ELSE (IF area.start < change_start
          THEN {FbaArea(area.start, change_start, area.perm, area.offset,
                        left_pages * FbaPageSize)}
          ELSE {})
         \cup {FbaArea(change_start, change_end, new_perm,
                       area.offset + left_pages * FbaPageSize, middle_pages * FbaPageSize)}
         \cup (IF change_end < area.end
               THEN {FbaArea(change_end, area.end, area.perm,
                             area.offset + (left_pages + middle_pages) * FbaPageSize,
                             area.len - (left_pages + middle_pages) * FbaPageSize)}
               ELSE {})

\* the area is replaced by what the operation returns
FbaReplace(op, area, out, start_vpn, end_vpn) ==
    /\ fba' = [fba EXCEPT !.areas = (@ \ {area}) \cup out]
    /\ last' = [op |-> op, area |-> area, out |-> out, start_vpn |-> start_vpn,
                end_vpn |-> end_vpn]

FbaPartialUnmap(area, start_vpn, end_vpn) ==
    /\ area \in fba.areas
    /\ FbaReplace("partial_unmap", area, partial_unmap(area, start_vpn, end_vpn),
                  start_vpn, end_vpn)
    /\ OnlyFba

FbaSplitAt(area, split_vpn) ==
    /\ area \in fba.areas
    /\ FbaReplace("split_at", area, split_at(area, split_vpn), split_vpn, split_vpn)
    /\ OnlyFba

FbaPartialChangePermission(area, start_vpn, end_vpn, new_perm) ==
    /\ area \in fba.areas
    /\ FbaReplace("partial_change_permission", area,
                  fba_change_permission(area, start_vpn, end_vpn, new_perm),
                  start_vpn, end_vpn)
    /\ OnlyFba

(***************************************************************************)
(* MemorySpace::clone_for_fork                                             *)
(***************************************************************************)
KernelAreaTypes == {"KernelText", "KernelRodata", "KernelData", "KernelBss",
                    "KernelStack", "KernelHeap", "KernelMmio"}

\* MappingArea::clone_metadata
clone_metadata(area) == [area EXCEPT !.frames = << >>]

\* clone_with_data, one (vpn, Single(frame)) of self.frames: r is the result of
\* alloc_frame(); the bytes are copied, the PTE written, the tracker kept
clone_one_frame(st, vpn, r) ==
    IF ~r.ok THEN Err(st, "FrameAllocFailed")
    ELSE LET m == pt_map(st.pt, vpn, r.ppn, st.area.permission) IN
         IF ~m.ok THEN Err([st EXCEPT !.fa = dealloc_frame(r.fa, r.ppn)], m.err)
         ELSE Ok(frames_insert([st EXCEPT !.fa = r.fa, !.pt = m.pt], vpn, r.ppn))

\* clone_with_data, for (vpn, tracked_frames) in &self.frames
RECURSIVE clone_frames(_, _)
RECURSIVE clone_frames_next(_, _, _)
clone_frames(st, todo) ==
    IF todo = {} THEN Ok(st)
    ELSE clone_frames_next(clone_one_frame(st, Min(todo), alloc_frame(st.fa)), todo, Min(todo))

clone_frames_next(r, todo, vpn) == IF r.ok THEN clone_frames(r, todo \ {vpn}) ELSE r

\* MappingArea::clone_with_data of src into the state st of the new area
clone_with_data(st, src) ==
    IF src.map_type # "Framed" THEN Err(st, "UnsupportedMapType")
    ELSE clone_frames(st, DOMAIN src.frames)

\* clone_for_fork, one area of self.areas; sp = [areas, pt, fa, ok, err] is
\* the new space
clone_area(sp, area) ==
    LET st == [area |-> clone_metadata(area), pt |-> sp.pt, fa |-> sp.fa,
               ok |-> TRUE, err |-> None]
        r == IF area.area_type \in KernelAreaTypes THEN area_map(st)
             ELSE clone_with_data(st, area) IN
    IF r.ok
    THEN [sp EXCEPT !.areas = Append(@, r.area), !.pt = r.pt, !.fa = r.fa]
    ELSE [sp EXCEPT !.fa = area_drop(r.fa, r.area), !.ok = FALSE, !.err = r.err]

\* clone_for_fork, for area in &self.areas
RECURSIVE clone_areas(_, _)
clone_areas(sp, i) ==
    IF i > Len(areas) \/ ~sp.ok THEN sp ELSE clone_areas(clone_area(sp, areas[i]), i + 1)

\* MemorySpace::clone_for_fork: the new space, or the error
clone_for_fork == clone_areas([areas |-> <<>>, pt |-> << >>, fa |-> FA, ok |-> TRUE,
                               err |-> None], 1)

\* dropping a MemorySpace drops its areas
RECURSIVE space_drop(_, _)
space_drop(fa, as) == IF as = <<>> THEN fa ELSE space_drop(area_drop(fa, Head(as)), Tail(as))

\* vpn_range, area_type, map_type and permission of every area
AreaShapes(as) == [i \in 1..Len(as) |-> clone_metadata(as[i])]

\* frames the user areas of the space hold
RECURSIVE FramesToCopy(_)
FramesToCopy(as) ==
    IF as = <<>> THEN 0
    ELSE (IF Head(as).area_type \in KernelAreaTypes THEN 0
          ELSE Cardinality(DOMAIN Head(as).frames)) + FramesToCopy(Tail(as))

\* a call of clone_for_fork whose result sp is dropped by the caller (a fork
\* that is abandoned): on Err the partly built space is dropped inside the call
CloneForForkDone(sp) ==
    /\ SetFA(space_drop(sp.fa, sp.areas))
    /\ last' = [op |-> "clone_for_fork", ok |-> sp.ok, err |-> sp.err,
                child |-> AreaShapes(sp.areas), child_heap |-> heap_start,
                parent |-> AreaShapes(areas),
                enough |-> FramesToCopy(areas) <= total_frames - allocated_count]

CloneForFork ==
    /\ CloneForForkDone(clone_for_fork)
    /\ UNCHANGED <<areas, page_table, heap_start>>
    /\ OnlyMem

(***************************************************************************)
(* One tmpfs directory used from two CPUs (tmpfs/inode.rs): the children   *)
(* map, the inode numbers, and the position of each caller.  create, mkdir *)
(* and mknod hold the children lock from the check to the insert; symlink  *)
(* takes it twice.                                                         *)
(***************************************************************************)
DirCpus == 1..2
DirNames == {"a", "b"}
\* inode numbers handed out in one run
MaxDirInos == 4
NoChild == [ino |-> 0, type |-> "None"]
DirIdle == [pc |-> "idle"]

\* an empty directory; inode 1 is the directory itself
InitDir ==
    [children |-> [n \in DirNames |-> NoChild], next_inode_no |-> 2,
     calls |-> [c \in DirCpus |-> DirIdle], made |-> {}]

\* calls that may still take an inode number
DirInFlight == Cardinality({c \in DirCpus : dir.calls[c].pc = "write"})

DirHasInos == dir.next_inode_no + DirInFlight < 2 + MaxDirInos

\* the entry made by a call that returned Ok, as the caller knows it
Made(name, ino) == [name |-> name, ino |-> ino]

\* children.contains_key(name) is false: alloc_inode_no, TmpfsInode::new,
\* children.insert, all under the guard taken before the check
insert_new(c, op, name, type) ==
    /\ dir' = [dir EXCEPT !.children[name] = [ino |-> dir.next_inode_no, type |-> type],
                          !.next_inode_no = @ + 1,
                          !.made = @ \cup {Made(name, dir.next_inode_no)}]
    /\ last' = [op |-> op, c |-> c, name |-> name, ok |-> TRUE, err |-> None,
                ino |-> dir.next_inode_no, replaced |-> dir.children[name]]

DirFail(c, op, name, err) ==
    /\ last' = [op |-> op, c |-> c, name |-> name, ok |-> FALSE, err |-> err,
                ino |-> 0, replaced |-> NoChild]

\* create, mkdir, mknod: check and insert under one guard
check_and_insert(c, op, name, type) ==
    /\ dir.calls[c].pc = "idle"
    /\ IF dir.children[name] # NoChild
       THEN DirFail(c, op, name, "AlreadyExists") /\ UNCHANGED dir
       ELSE DirHasInos /\ insert_new(c, op, name, type)

\* TmpfsInode::create
DirCreate(c, name) ==
    /\ check_and_insert(c, "create", name, "File")
    /\ OnlyDir

\* TmpfsInode::mkdir
DirMkdir(c, name) ==
    /\ check_and_insert(c, "mkdir", name, "Directory")
    /\ OnlyDir

\* TmpfsInode::mknod with S_IFCHR, S_IFBLK or S_IFIFO in mode
DirMknod(c, name, type) ==
    /\ check_and_insert(c, "mknod", name, type)
    /\ OnlyDir

\* TmpfsInode::unlink
DirUnlink(c, name) ==
    /\ dir.calls[c].pc = "idle"
    /\ IF dir.children[name] = NoChild
       THEN DirFail(c, "unlink", name, "NotFound") /\ UNCHANGED dir
       ELSE IF dir.children[name].type = "Directory"
       THEN DirFail(c, "unlink", name, "IsDirectory") /\ UNCHANGED dir
       ELSE /\ dir' = [dir EXCEPT !.children[name] = NoChild,
                                  !.made = {m \in @ : m.name # name}]
            /\ last' = [op |-> "unlink", c |-> c, name |-> name, ok |-> TRUE, err |-> None,
                        ino |-> 0, replaced |-> dir.children[name]]
    /\ OnlyDir

\* symlink, from self.children.lock() to drop(children)
DirSymlinkCheck(c, name) ==
    /\ dir.calls[c].pc = "idle"
    /\ IF dir.children[name] # NoChild
       THEN DirFail(c, "symlink", name, "AlreadyExists") /\ UNCHANGED dir
       ELSE /\ DirHasInos
            /\ dir' = [dir EXCEPT !.calls[c] = [pc |-> "write", name |-> name, ino |-> 0]]
            /\ UNCHANGED last
    /\ OnlyDir

\* symlink, alloc_inode_no, TmpfsInode::new and symlink_inode.write_at(0, target);
\* nospace: the file system has no page left for the target
DirSymlinkWrite(c, nospace) ==
    /\ dir.calls[c].pc = "write"
    /\ IF nospace
       THEN /\ dir' = [dir EXCEPT !.next_inode_no = @ + 1, !.calls[c] = DirIdle]
            /\ DirFail(c, "symlink", dir.calls[c].name, "NoSpace")
       ELSE /\ dir' = [dir EXCEPT !.next_inode_no = @ + 1,
                                  !.calls[c] = [pc |-> "insert", name |-> dir.calls[c].name,
                                                ino |-> dir.next_inode_no]]
            /\ UNCHANGED last
    /\ OnlyDir

\* symlink, self.children.lock().insert(name, symlink_inode): BTreeMap::insert
\* replaces the value of a key that is present
DirSymlinkInsert(c) ==
    /\ dir.calls[c].pc = "insert"
    /\ dir' = [dir EXCEPT !.children[dir.calls[c].name] =
                              [ino |-> dir.calls[c].ino, type |-> "Symlink"],
                          !.made = @ \cup {Made(dir.calls[c].name, dir.calls[c].ino)},
                          !.calls[c] = DirIdle]
    /\ last' = [op |-> "symlink", c |-> c, name |-> dir.calls[c].name, ok |-> TRUE,
                err |-> None, ino |-> dir.calls[c].ino,
                replaced |-> dir.children[dir.calls[c].name]]
    /\ OnlyDir

(***************************************************************************)
(* Initial values                                                          *)
(***************************************************************************)
\* lazy_static FRAME_ALLOCATOR = SpinLock::new(FrameAllocator::new())
InitFrameVars ==
    /\ total_frames = FrameAllocator_new.total_frames
    /\ bitmap = FrameAllocator_new.bitmap
    /\ allocated_count = FrameAllocator_new.allocated_count
    /\ last_alloc_hint = FrameAllocator_new.last_alloc_hint
    /\ faLock = FALSE
    /\ trackers = <<>>
    /\ afCall = AfIdle

\* MemorySpace::new
InitMemVars ==
    /\ areas = <<>>
    /\ page_table = << >>
    /\ heap_start = <<>>

\* RawSpinLock::new for every lock; no guard alive
InitLockVars ==
    /\ lockFlag = [l \in Locks |-> FALSE]
    /\ intr = [c \in Cpus |-> TRUE]
    /\ guards = <<>>
    /\ spin = [c \in Cpus |-> NotSpinning]

\* FDTable::new
InitFdVars ==
    /\ files = <<>>
    /\ fd_flags = <<>>

\* PipeFile::create_pair
InitPipeVars ==
    /\ buffer = create_pair.buffer
    /\ capacity = create_pair.capacity
    /\ write_end_count = create_pair.write_end_count
    /\ read_end_count = create_pair.read_end_count
    /\ ends = {"Read", "Write"}
    /\ pipeCalls = 0

\* TmpFs::new(max_size_mb) followed by create() of the files
InitTmpVars ==
    /\ tmAllocated = 0
    /\ tmInodes = [i \in TmpInos |-> [size |-> 0, data |-> <<>>, linked |-> TRUE]]
    /\ tmOp = [i \in TmpInos |-> WriteIdle]
    /\ tmWritten = [i \in TmpInos |-> {}]
    /\ tmPanicked = FALSE

\* no walk has been started
InitWalkVars == walk = WalkIdle

InitExtRest == InitTmpVars /\ InitWalkVars /\ shmPanicked = FALSE /\ ffa = FindIdle
               /\ tlb = TlbIdle
               /\ klog = InitKlog /\ reg = InitReg /\ blk = InitBlk
               /\ fmt = InitFmt /\ tml = InitTml
               /\ fdc = InitFdc /\ wq = InitWq /\ fba = InitFba /\ dir = InitDir

InitExtVars == InitExtRest /\ tid = InitTid

(***************************************************************************)
(* Specification of the frame allocator                                    *)
(***************************************************************************)
InitFrame ==
    /\ InitFrameVars /\ InitMemVars /\ InitLockVars /\ InitFdVars /\ InitPipeVars /\ InitExtVars
    /\ last = [op |-> "none"]

NextFrame ==
    \/ InitFrameAllocator
    \/ AllocFrame
    \/ \E n \in 0..MaxAllocN : AllocFramesCall(n)
    \/ AllocFramesDropPartial
    \/ AllocFramesReturnNone
    \/ \E n \in 0..MaxAllocN : AllocContigFrames(n)
    \/ \E n \in 0..MaxAllocN, a \in {1, 2, 4} : AllocContigFramesAligned(n, a)
    \/ \E i \in 1..MaxTrackers : DropTracker(i)

SpecFrame == InitFrame /\ [][NextFrame]_vars

(***************************************************************************)
(* Specification of the memory space                                       *)
(***************************************************************************)
\* the state after boot: init_frame_allocator has run, the space is empty
InitMem ==
    /\ total_frames = MemFrames /\ bitmap = {} /\ allocated_count = 0 /\ last_alloc_hint = 0
    /\ faLock = FALSE /\ trackers = <<>> /\ afCall = AfIdle
    /\ InitMemVars /\ InitLockVars /\ InitFdVars /\ InitPipeVars /\ InitExtVars
    /\ last = [op |-> "none"]

NextMem ==
    \/ \E v \in 0..(MaxVpn - 1) : SetHeapStart(v)
    \/ \E s \in 0..(MaxVpn - 1) : \E e \in (s + 1)..MaxVpn : InsertFramedArea(s, e, "UserMmap")
    \/ \E s \in 0..(MaxVpn - 1) : \E e \in (s + 1)..MaxVpn : InsertReservedArea(s, e, "UserMmap")
    \/ \E s \in 0..(MaxVpn - 1) : \E e \in (s + 1)..MaxVpn : InsertDirectArea(s, e)
    \/ \E v \in 0..(MaxVpn - 1) : RemoveArea(v)
    \/ \E e \in 0..MaxVpn : ExtendHeap(e)

SpecMem == InitMem /\ [][NextMem]_vars

VpnSet(a) == VpnRange(a.start, a.end)

\* C2: after any sequence of mutating MemorySpace operations the VPN ranges of
\* any two distinct areas are disjoint.
C2_AreasDisjoint ==
    \A i, j \in 1..Len(areas) : i # j => VpnSet(areas[i]) \cap VpnSet(areas[j]) = {}

\* C3: for every Framed area, the keys of frames lie inside vpn_range and their
\* number equals the number of populated PTEs within vpn_range.
C3_FramesMatchPtes ==
    \A i \in 1..Len(areas) :
        areas[i].map_type = "Framed" =>
            /\ DOMAIN areas[i].frames \subseteq VpnSet(areas[i])
            /\ Cardinality(DOMAIN areas[i].frames)
                  = Cardinality(VpnSet(areas[i]) \cap DOMAIN page_table)

\* every live tracker: the callers' and the partial vector of a failing alloc_frames
LiveTrackers == trackers \o afCall.partial

FrameIdx(t) == {p - StartPpn : p \in TrackerFrames(t)}

\* C1: when fewer than n frames are free, the global alloc_frames(n) returns None
\* (it does not hang on the allocator lock it holds itself), and on return the
\* bitmap and the allocated count are as they were before the call.
C1_AllocFramesFailsClosed ==
    /\ afCall.pc # "spin"
    /\ (afCall.pc = "idle" /\ last.op = "alloc_frames" /\ last.freeBefore < last.n)
          => (~last.ok /\ bitmap = last.preBitmap /\ allocated_count = last.preCount)

C4_TrackerInv ==
    /\ \A i \in 1..Len(LiveTrackers) : FrameIdx(LiveTrackers[i]) \subseteq bitmap
    /\ \A i, j \in 1..Len(LiveTrackers) :
          i # j => TrackerFrames(LiveTrackers[i]) \cap TrackerFrames(LiveTrackers[j]) = {}

C4_DropStep ==
    (last'.op = "drop" /\ Len(trackers') = Len(trackers) - 1) =>
        /\ bitmap' = bitmap \ FrameIdx(last'.tracker)
        /\ allocated_count' = allocated_count - last'.tracker.len
        /\ (/\ last.op \in {"alloc_frame", "alloc_contig_frames", "alloc_contig_frames_aligned"}
            /\ last.ok
            /\ last'.tracker.start = last.start /\ last'.tracker.len = last.len)
              => (bitmap' = last.preBitmap /\ allocated_count' = last.preCount)

\* C4: the allocator bit of every frame owned by a live FrameTracker or
\* FrameRangeTracker is set, no frame is owned by two live trackers, dropping a
\* tracker clears exactly the bits of its own frames, and allocating then dropping
\* restores the bitmap and the allocated count.
C4_TrackersOwnTheirBits == [](C4_TrackerInv) /\ [][C4_DropStep]_vars

\* a range tracker has been dropped while another tracker is still alive
C4_Witness ==
    /\ last.op = "drop" /\ last.tracker.kind = "range" /\ last.tracker.len >= 2
    /\ Len(trackers) >= 1

(***************************************************************************)
(* Specification of the spin lock                                          *)
(***************************************************************************)
\* the interrupt-enable state of a CPU before it takes its first lock is arbitrary
InitLock ==
    /\ InitFrameVars /\ InitMemVars /\ InitFdVars /\ InitPipeVars /\ InitExtVars
    /\ lockFlag = [l \in Locks |-> FALSE]
    /\ intr \in [Cpus -> BOOLEAN]
    /\ guards = <<>>
    /\ spin = [c \in Cpus |-> NotSpinning]
    /\ last = [op |-> "none"]

NextLock ==
    \/ \E c \in Cpus, l \in Locks : LockBegin(c, l)
    \/ \E c \in Cpus : LockAcquire(c)
    \/ \E c \in Cpus, l \in Locks : TryLock(c, l)
    \/ \E i \in 1..MaxGuards : DropGuard(i)

SpecLock == InitLock /\ [][NextLock]_vars

GuardsOn(gs, l) == {i \in 1..Len(gs) : gs[i].lock = l}

C5_Inv == \A l \in Locks : Cardinality(GuardsOn(guards, l)) <= 1

C5_Step ==
    /\ Len(guards') > Len(guards) => GuardsOn(guards, guards'[Len(guards')].lock) = {}
    /\ (last'.op = "try_lock" /\ GuardsOn(guards, last'.lock) # {})
          => (last'.res = None /\ guards' = guards)

\* C5: at most one guard of a lock is alive at any time: while a guard is alive,
\* lock() on that lock does not return and try_lock() returns None.
C5_MutualExclusion == [](C5_Inv) /\ [][C5_Step]_vars

\* try_lock has just failed on a lock whose guard is held by another CPU
C5_Witness ==
    /\ last.op = "try_lock" /\ last.res = None
    /\ \E i \in 1..Len(guards) : guards[i].lock = last.lock /\ guards[i].cpu # last.cpu

\* C6: while a guard is alive the interrupts of the CPU that acquired it are
\* disabled, whatever the order in which guards are acquired and dropped, and
\* dropping a guard restores the state saved when it was acquired.
C6_IntrDisabledWhileHeld ==
    /\ \A i \in 1..Len(guards) : guards[i].via = "lock" => intr[guards[i].cpu] = FALSE
    /\ last.op = "drop_guard" => intr[last.cpu] = (last.flags # 0)

(***************************************************************************)
(* Specification of the fd table                                           *)
(***************************************************************************)
InitFd ==
    /\ InitFrameVars /\ InitMemVars /\ InitLockVars /\ InitFdVars /\ InitPipeVars /\ InitExtVars
    /\ last = [op |-> "none"]

FdRange == 0..(MaxFds + 1)

NextFd ==
    \/ \E f \in FdFiles : FdAlloc(f)
    \/ \E f \in FdFiles, fl \in {0, CLOEXEC} : FdAllocWithFlags(f, fl)
    \/ \E fd \in FdRange, f \in FdFiles : FdInstallAt(fd, f)
    \/ \E fd \in FdRange : FdDup(fd)
    \/ \E fd \in FdRange, m \in FdRange, fl \in {0, CLOEXEC} : FdDupFrom(fd, m, fl)
    \/ \E o \in FdRange, n \in FdRange : FdDup2(o, n)
    \/ \E o \in FdRange, n \in FdRange, fl \in {0, CLOEXEC} : FdDup3(o, n, fl)
    \/ \E fd \in FdRange : FdClose(fd)
    \/ FdCloseExec

SpecFd == InitFd /\ [][NextFd]_vars

\* C7: every fd returned by alloc, alloc_with_flags, dup or dup_from is below max_fds.
C7_ReturnedFdBelowMax ==
    (last.op \in {"alloc", "alloc_with_flags", "dup", "dup_from"} /\ last.ok) => last.fd < MaxFds

\* fd was open in the table v
IsOpen(v, fd) == fd < Len(v) /\ Slot(v, fd) # NoFile

\* C8: alloc returns the smallest fd that was not open, get(fd) then returns the
\* file, and alloc fails with TooManyOpenFiles exactly when every fd below max_fds
\* was open.
C8_AllocLowestFree ==
    last.op = "alloc" =>
        /\ last.ok => /\ last.fd = Min({fd \in 0..Len(last.pre) : ~IsOpen(last.pre, fd)})
                      /\ get(Table, last.fd) = last.file
        /\ (~last.ok /\ last.err = "TooManyOpenFiles")
              <=> (\A fd \in 0..(MaxFds - 1) : IsOpen(last.pre, fd))

(***************************************************************************)
(* Specification of the pipe                                               *)
(***************************************************************************)
InitPipe ==
    /\ InitFrameVars /\ InitMemVars /\ InitLockVars /\ InitFdVars /\ InitPipeVars /\ InitExtVars
    /\ last = [op |-> "none"]

NextPipe ==
    \/ \E end \in {"Read", "Write"}, len \in PipeLens : PipeRead(end, len)
    \/ \E end \in {"Read", "Write"}, b \in PipeBytes, len \in PipeLens : PipeWrite(end, b, len)
    \/ \E end \in {"Read", "Write"}, size \in PipeSizes : PipeSetSize(end, size)
    \/ \E end \in {"Read", "Write"} : PipeDrop(end)

SpecPipe == InitPipe /\ [][NextPipe]_vars

\* C9: a read on an empty buffer returns WouldBlock while a write end is open and
\* 0 (EOF) once every write end has been dropped.
C9_EmptyReadWouldBlock ==
    (last.op = "read" /\ last.end = "Read" /\ last.preBuffer = <<>>) =>
        IF "Write" \in last.preEnds
        THEN ~last.ok /\ last.err = "WouldBlock"
        ELSE last.ok /\ last.n = 0

\* C10: a write returns BrokenPipe exactly when every read end had been dropped at
\* the time of the write, and then no byte is added to the buffer.
C10_BrokenPipeIffNoReaders ==
    last.op = "write" =>
        /\ (last.err = "BrokenPipe") <=> ("Read" \notin last.preEnds)
        /\ last.err = "BrokenPipe" => buffer = last.preBuffer

\* a write on the write end has failed with BrokenPipe while bytes were buffered
C10_Witness ==
    /\ last.op = "write" /\ last.end = "Write" /\ last.err = "BrokenPipe"
    /\ buffer # <<>>

\* C15: when the insertion of an area fails part-way, the page-table entries
\* created by that insertion are removed: on error the page table and the
\* area list are as they were before the call
C15_FailedInsertRollsBack ==
    last.op \in {"insert_framed_area", "insert_reserved_area", "insert_area"} /\ ~last.ok
        => page_table = last.prePt /\ areas = last.preAreas

\* C16: extend_heap(new_end) returns InvalidAddress whenever new_end lies
\* below heap_start, whether or not a UserHeap area exists, and leaves the
\* memory space unchanged
C16_ExtendHeapBelowStart ==
    last.op = "extend_heap" /\ heap_start # <<>> /\ last.new_end < heap_start[1]
        => /\ ~last.ok /\ last.err = "InvalidAddress"
           /\ page_table = last.prePt /\ areas = last.preAreas

(***************************************************************************)
(* Specification of the tmpfs                                              *)
(***************************************************************************)
\* the state after boot and mount: the frame allocator is initialised and
\* other kernel subsystems hold the first k frames
InitTmp ==
    /\ total_frames = TmpFrames /\ last_alloc_hint = 0
    /\ \E k \in 0..TmpEnvFrames : bitmap = 0..(k - 1) /\ allocated_count = k
    /\ faLock = FALSE /\ trackers = <<>> /\ afCall = AfIdle
    /\ InitMemVars /\ InitLockVars /\ InitFdVars /\ InitPipeVars /\ InitExtVars
    /\ last = [op |-> "none"]

\* no tmpfs call is in progress
TmIdle == \A j \in TmpInos : tmOp[j].pc = "idle"

\* inputs: byte-granular calls on file 1, one-page calls on the other files
TmpOffsets(i) == IF i = 1 THEN 0..TmpMaxSize ELSE {0}
TmpLens(i, offset) ==
    IF i = 1 THEN 0..(TmpMaxSize - offset) ELSE {TmpPageSize} \cap (0..(TmpMaxSize - offset))

\* calls made one after the other (a single caller)
NextTmp ==
    \/ \E i \in TmpInos : \E offset \in TmpOffsets(i) : \E len \in TmpLens(i, offset) :
          TmIdle /\ TmpWriteBegin(i, offset, len)
    \/ \E i \in TmpInos : TmpWriteStep(i)
    \/ \E i \in TmpInos : TmpWriteAlloc(i)
    \/ \E i \in TmpInos : TmpWriteSize(i)
    \/ \E offset \in TmpOffsets(1) : \E len \in 1..TmpMaxSize : TmIdle /\ TmpReadAt(1, offset, len)
    \/ \E i \in TmpInos : \E n \in TmpOffsets(i) : TmIdle /\ TmpTruncate(i, n)
    \/ \E i \in TmpInos : TmIdle /\ TmpUnlink(i)
    \/ \E i \in TmpInos : TmIdle /\ TmpCreate(i)
    \/ \E i \in TmpInos : \E len \in 1..TmpMaxSize : TmIdle /\ TmpSymlink(i, len)

SpecTmp == InitTmp /\ [][NextTmp]_vars

\* page-granular inputs of the concurrent callers
TmpPageOffsets == {k * TmpPageSize : k \in 0..((TmpMaxSize \div TmpPageSize) - 1)}
TmpPageLens(offset) == {k * TmpPageSize : k \in 1..((TmpMaxSize - offset) \div TmpPageSize)}

\* calls on different files running concurrently on several CPUs
NextTmpConc ==
    \/ \E i \in TmpInos : \E offset \in TmpPageOffsets : \E len \in TmpPageLens(offset) :
          TmpWriteBegin(i, offset, len)
    \/ \E i \in TmpInos : TmpWriteStep(i)
    \/ \E i \in TmpInos : TmpWriteAlloc(i)
    \/ \E i \in TmpInos : TmpWriteSize(i)
    \/ \E i \in TmpInos : \E n \in TmpPageOffsets : TmpTruncate(i, n)
    \/ \E i \in TmpInos : TmpUnlink(i)
    \/ \E i \in TmpInos : TmpCreate(i)

SpecTmpConc == InitTmp /\ [][NextTmpConc]_vars

\* C11: with the page limit M = TmpMaxPages > 0, the charged page count never
\* exceeds M under concurrent writes, truncates and unlinks, and a write_at
\* that needs a new page is granted one only while fewer than M pages are
\* charged (with M charged it returns NoSpace)
C11_ChargedWithinLimit ==
    /\ tmAllocated <= TmpMaxPages
    /\ (last.op = "reserve_page" => last.charged < TmpMaxPages)
    /\ (last.op = "write_at" /\ last.at = "reserve_page"
          => ~last.ok /\ last.err = "NoSpace" /\ last.charged = TmpMaxPages)

\* a write_at was refused at the limit while another write_at sits between
\* its reserve_page and its alloc_frame
C11_Witness ==
    /\ last.op = "write_at" /\ last.at = "reserve_page" /\ last.err = "NoSpace"
    /\ tmAllocated = TmpMaxPages
    /\ \E j \in TmpInos : tmOp[j].pc = "alloc"

\* C12: read_at returns zero for every byte position below the file size that
\* has not been written since it last lay at or beyond the end of file (holes
\* of sparse writes, ranges re-exposed by a shrinking and a growing truncate)
C12_UnwrittenReadsZero ==
    last.op = "read_at" =>
        \A k \in 1..Len(last.bytes) :
            (last.offset + k - 1) \notin last.written => last.bytes[k] = 0

\* C13: truncate(n) with n < size returns Ok, sets the size to n, releases
\* every data page with index >= ceil(n / page_size) and lowers the charged
\* page count by exactly the number of pages released
C13_TruncateShrinks ==
    last.op = "truncate" /\ last.new_size < last.preSize =>
        /\ last.ok
        /\ tmInodes[last.i].size = last.new_size
        /\ Len(tmInodes[last.i].data) <= PageCount(last.new_size)
        /\ tmAllocated = last.preAllocated - last.held

(***************************************************************************)
(* Specification of the path walk                                          *)
(***************************************************************************)
InitWalk ==
    /\ InitFrameVars /\ InitMemVars /\ InitLockVars /\ InitFdVars /\ InitPipeVars /\ InitExtVars
    /\ last = [op |-> "none"]

\* absolute paths of one or two components, and three longer ones
WalkPaths ==
    {<<"/", x>> : x \in WalkNames}
    \cup {<<"/", x, y>> : x \in WalkNames \cup {".."}, y \in WalkNames \cup {"..", "."}}
    \cup {<<"/", "s4", "..", "s5">>, <<"/", "d", "up", "s8">>, <<"/", "d", "up", "d", "up", "s7">>}

NextWalk ==
    \/ \E p \in WalkPaths : \E follow \in BOOLEAN : WalkBegin(p, follow)
    \/ WalkStep
    \/ WalkReturn

\* a started walk keeps running on its CPU until it returns
SpecWalk == InitWalk /\ [][NextWalk]_vars /\ WF_vars(WalkStep) /\ WF_vars(WalkReturn)

\* C14: a path walk performs at most MAX_SYMLINK_DEPTH symlink expansions in
\* total, fails with TooManySymlinks exactly when a further expansion is
\* needed after MAX_SYMLINK_DEPTH of them, and every walk terminates
C14_WalkBounded ==
    /\ [](/\ walk.expansions <= MAX_SYMLINK_DEPTH
          /\ (walk.pc = "done" /\ walk.err = "TooManySymlinks"
                => /\ walk.expansions = MAX_SYMLINK_DEPTH
                   /\ FsTree[walk.cur].type = "Symlink")
          /\ (walk.pc = "done" /\ walk.ok => FsTree[walk.cur].type # "Symlink" \/ ~walk.follow))
    /\ (walk.pc = "walking" ~> walk.pc = "done")

\* the walk of /s8 succeeded after exactly MAX_SYMLINK_DEPTH expansions
C14_Witness ==
    /\ walk.pc = "done" /\ walk.ok /\ walk.cur = "f"
    /\ walk.expansions = MAX_SYMLINK_DEPTH

(***************************************************************************)
(* Specification of shared-memory creation over the frame allocator        *)
(***************************************************************************)
\* the state after boot: init_frame_allocator has run over TotalFrames frames
InitShm ==
    /\ total_frames = TotalFrames /\ bitmap = {} /\ allocated_count = 0 /\ last_alloc_hint = 0
    /\ faLock = FALSE /\ trackers = <<>> /\ afCall = AfIdle
    /\ InitMemVars /\ InitLockVars /\ InitFdVars /\ InitPipeVars /\ InitExtVars
    /\ last = [op |-> "none"]

\* a panic halts the kernel: nothing runs after it
NextShm ==
    \/ \E pages \in 0..MaxAllocN : SharedMemoryNew(pages)
    \/ ~shmPanicked /\ AllocFramesDropPartial
    \/ ~shmPanicked /\ AllocFrame
    \/ \E n \in 1..MaxAllocN : ~shmPanicked /\ AllocContigFrames(n)
    \/ \E i \in 1..MaxTrackers : ~shmPanicked /\ DropTracker(i)

SpecShm == InitShm /\ [][NextShm]_vars

\* C17: running out of physical frames never causes a panic: shared-memory
\* creation reports the failure of the allocator to its caller
C17_NoPanicOnExhaustion == ~shmPanicked

(***************************************************************************)
(* Specification of permission changes on the areas of a memory space      *)
(***************************************************************************)
NextPerm ==
    \/ \E s \in 0..(MaxVpn - 1) : \E e \in (s + 1)..MaxVpn : InsertFramedArea(s, e, "UserMmap")
    \/ \E s \in 0..(MaxVpn - 1) : \E e \in (s + 1)..MaxVpn : InsertReservedArea(s, e, "UserMmap")
    \/ \E v \in 0..(MaxVpn - 1) : RemoveArea(v)
    \/ \E pos \in 1..MaxVpn : \E s \in 0..(MaxVpn - 1) : \E e \in (s + 1)..MaxVpn :
          \E perm \in {"rw", "r", "none"} : PartialChangePermission(pos, s, e, perm)

SpecPerm == InitMem /\ [][NextPerm]_vars

\* C18: a successful partial_change_permission(range, perm) yields at most
\* three areas that tile the range of the original area; left and right keep
\* the old permission and map type, the middle is the intersection with range
\* and carries perm; with perm without access bits the middle is Reserved and
\* none of its VPNs has a PTE; every frame of the original area that was not
\* released is held by the sub-area whose range contains its VPN
C18_Tiles(a, out) ==
    /\ Len(out) >= 1 /\ Len(out) <= 3
    /\ out[1].start = a.start /\ out[Len(out)].end = a.end
    /\ \A k \in 1..Len(out) : out[k].start < out[k].end
    /\ \A k \in 1..(Len(out) - 1) : out[k].end = out[k + 1].start

C18_Middle(a, out, cs, ce, perm) ==
    \E m \in 1..Len(out) :
        /\ out[m].start = cs /\ out[m].end = ce /\ out[m].permission = perm
        /\ perm = "none" => /\ out[m].map_type = "Reserved"
                            /\ \A v \in VpnRange(cs, ce) : v \notin DOMAIN page_table
        /\ \A k \in 1..Len(out) :
              k # m => out[k].permission = a.permission /\ out[k].map_type = a.map_type

C18_Frames(a, out, cs, ce, perm) ==
    /\ \A k \in 1..Len(out) : \A v \in DOMAIN out[k].frames : contains(out[k], v)
    /\ \A v \in DOMAIN a.frames :
          ~(perm = "none" /\ v >= cs /\ v < ce) =>
              \E k \in 1..Len(out) : /\ v \in DOMAIN out[k].frames
                                     /\ out[k].frames[v] = a.frames[v]

C18_SplitByPermission ==
    last.op = "partial_change_permission" /\ last.ok =>
        /\ C18_Tiles(last.area, last.out)
        /\ (IF last.start > last.area.start THEN last.start ELSE last.area.start)
              < Min({last.end, last.area.end})
           => /\ C18_Middle(last.area, last.out,
                            IF last.start > last.area.start THEN last.start ELSE last.area.start,
                            Min({last.end, last.area.end}), last.perm)
              /\ C18_Frames(last.area, last.out,
                            IF last.start > last.area.start THEN last.start ELSE last.area.start,
                            Min({last.end, last.area.end}), last.perm)

(***************************************************************************)
(* Specification of find_free_area                                         *)
(***************************************************************************)
\* largest size_pages asked for
MaxFindPages == 3

\* the space is borrowed for the whole scan, so areas change only between calls
NextFind ==
    \/ \E s \in 0..(MaxVpn - 1) : \E e \in (s + 1)..MaxVpn :
          ffa.pc = "idle" /\ InsertReservedArea(s, e, "UserMmap")
    \/ \E v \in 0..(MaxVpn - 1) : ffa.pc = "idle" /\ RemoveArea(v)
    \/ \E s \in 0..MaxVpn : \E e \in 0..MaxVpn : \E n \in 0..MaxFindPages : FindFreeBegin(s, e, n)
    \/ FindFreeStep

SpecFind == InitMem /\ [][NextFind]_vars /\ WF_vars(FindFreeStep)

\* [s, s + n) lies inside [start, end) and overlaps no area (PageNumRange::overlaps)
C19_Free(s, n, start, end) ==
    /\ s >= start /\ s + n <= end
    /\ \A i \in 1..Len(areas) : ~overlaps(areas[i].start, areas[i].end, s, s + n)

\* C19: find_free_area(start, end, n) returns the lowest-addressed n-page range
\* inside [start, end) that overlaps no existing area, returns None exactly when
\* no such range exists, and every call returns
C19_FirstFit ==
    /\ [](last.op = "find_free_area" =>
            IF \E s \in 0..MaxVpn : C19_Free(s, last.size_pages, last.start, last.end)
            THEN /\ last.result # << >>
                 /\ last.result[1].end = last.result[1].start + last.size_pages
                 /\ C19_Free(last.result[1].start, last.size_pages, last.start, last.end)
                 /\ \A s \in 0..MaxVpn : C19_Free(s, last.size_pages, last.start, last.end)
                                           => last.result[1].start <= s
            ELSE last.result = << >>)
    /\ (ffa.pc = "scan" ~> ffa.pc = "idle")

\* the scan jumped over two areas and found the gap behind them
C19_Witness ==
    /\ last.op = "find_free_area" /\ last.result # << >>
    /\ last.result[1].start > last.start + 1
    /\ Len(areas) = 2 /\ last.size_pages > 0


(***************************************************************************)
(* Specification of the page loops and their TLB batch                     *)
(***************************************************************************)
\* largest number of pages one mapping-area operation ranges over
MaxOpPages == 3

NextTlb ==
    \/ \E n \in 1..MaxOpPages : MapBegin(n)
    \/ \E n \in 1..MaxOpPages : UnmapBegin(n)
    \/ \E n \in 1..MaxOpPages : CloneWithDataBegin(n)
    \/ \E n \in 1..MaxOpPages : PartialUnmapBegin(n)
    \/ \E n \in 1..MaxOpPages : ChangePermissionBegin(n)
    \/ \E n \in 1..MaxOpPages : ExtendBegin(n)
    \/ \E n \in 1..MaxOpPages : ShrinkBegin(n)
    \/ AreaOpPage
    \/ \E ok \in BOOLEAN : AreaOpLoopEnd(ok)
    \/ \E landed \in BOOLEAN : ExecuteFlush(landed)

SpecTlb == InitMem /\ [][NextTlb]_vars

AreaOps == {"map", "unmap", "clone_with_data", "partial_unmap", "partial_change_permission",
            "extend", "shrink"}

\* C20: every mapping-area operation that changes more than one page (map,
\* unmap, extend, shrink, partial unmap, permission change, fork copy) makes all
\* of its page-table updates inside one TLB batch context, and that batch is
\* flushed exactly once when the operation ends, also when it ends with an error
C20_OneBatchOneFlush ==
    last.op \in AreaOps /\ last.updates > 1 =>
        /\ last.opened = 1
        /\ last.unbatched = 0
        /\ last.flushed = 1

(***************************************************************************)
(* Specification of the kernel log                                         *)
(***************************************************************************)
\* largest number of _log calls that pass the filter in one run
MaxLogCalls == 4

NextLog ==
    \/ \E c \in LogCpus : \E level \in LogLevels : klog.passed < MaxLogCalls /\ Log(c, level)
    \/ \E c \in LogCpus : BufferReserve(c)
    \/ \E c \in LogCpus : BufferCheck(c)
    \/ \E c \in LogCpus : BufferDiscard(c)
    \/ \E c \in LogCpus : BufferCount(c)
    \/ \E c \in LogCpus : BufferCommit(c)
    \/ ReadLog
    \/ \E level \in LogLevels : SetGlobalLevel(level)

SpecLog == InitMem /\ [][NextLog]_vars

NextReg ==
    \/ \E k \in Registries : RegisterStoreData(k)
    \/ \E k \in Registries : RegisterStoreVtable(k)
    \/ \E c \in RegCpus : \E k \in Registries : LookupLoadData(c, k)
    \/ \E c \in RegCpus : LookupLoadVtable(c)

SpecReg == InitMem /\ [][NextReg]_vars

\* C22: a lookup in an ops registry either panics (nothing registered yet) or
\* returns exactly the registered trait object, both pointer halves coming from
\* the same registration, in every interleaving of the lookup with a registration
C22_LookupPanicsOrWhole ==
    last.op = "lookup" =>
        \/ last.result.kind \in {"panic", "None"}
        \/ /\ last.result.kind = "object"
           /\ last.result.data = Obj.data /\ last.result.vtable = Obj.vtable

(***************************************************************************)
(* Specification of the block device file                                  *)
(***************************************************************************)
NextBlk ==
    \/ \E len \in 0..BlkMaxLen : BlkRead(len)
    \/ \E len \in 0..BlkMaxLen : BlkWrite(len)
    \/ \E offset \in -1..(BlkSectors * BLOCK_SIZE) : BlkLseek(offset)

SpecBlk == InitMem /\ [][NextBlk]_vars

\* C24: for any byte offset and length inside the device, aligned to the block
\* size or not, read returns the device bytes [offset, offset+len) and write
\* changes exactly the device bytes [offset, offset+len), leaving every other
\* byte unchanged; both advance the file offset by len
C24_ByteExact ==
    /\ (last.op = "blk_read" /\ last.offset + last.len <= Len(last.dev) =>
            /\ last.ok
            /\ last.bytes = SubSeq(last.dev, last.offset + 1, last.offset + last.len)
            /\ blk.offset = last.offset + last.len)
    /\ (last.op = "blk_write" /\ last.offset + last.len <= Len(last.dev) =>
            /\ last.ok
            /\ blk.dev = [p \in 1..Len(last.dev) |->
                             IF p > last.offset /\ p <= last.offset + last.len
                             THEN BlkPayload ELSE last.dev[p]]
            /\ blk.offset = last.offset + last.len)


\* C25: set_pipe_size(n) clamps the requested size into [4 KiB, 1 MiB]: after
\* the call get_pipe_size() returns min(max(n, 4096), 1048576)
C25_SetPipeSizeClamps ==
    last.op = "set_pipe_size" =>
        capacity = (IF last.len < MIN_CAPACITY THEN MIN_CAPACITY
                    ELSE IF last.len > MAX_CAPACITY THEN MAX_CAPACITY ELSE last.len)


\* the frames that were free before the last call
C26_Free == {f \in 0..(total_frames - 1) : f \notin last.preBitmap}

\* the position of the word of frame f in the circular scan that started at the hint
C26_Dist(f) ==
    ((f \div WordBits) - last.preHint + bitmap_len(FA)) % bitmap_len(FA)

C27_AlignedOneIsContig ==
    \A n \in 0..(TotalFrames + 1) :
        alloc_contig_frames_aligned(FA, n, 1) = alloc_contig_frames(FA, n)

\* a fragmented allocator: both find a range behind an allocated frame, and a
\* longer request fails in both although enough frames are free in total
C27_Witness ==
    /\ alloc_contig_frames(FA, 2).ok /\ alloc_contig_frames(FA, 2).start > StartPpn
    /\ ~alloc_contig_frames_aligned(FA, 3, 1).ok /\ total_frames - allocated_count >= 3
    /\ last.op = "alloc_contig_frames_aligned"

(***************************************************************************)
(* Specification of log entry formatting                                   *)
(***************************************************************************)
\* the log entries formatted: task ids below, at and over their 3 columns
FmtEntries ==
    [level : {3, 6}, cpu_id : {0, 1, 12}, task_id : {0, 7, 123, 1234},
     timestamp : {0, 5, 1234567890},
     message : {<< >>, <<"h", "i">>}]

NextFmt == \E entry \in FmtEntries : FormatEntry(entry)

SpecFmt == InitMem /\ [][NextFmt]_vars

InitTidAllocator ==
    /\ total_frames = MemFrames /\ bitmap = {} /\ allocated_count = 0 /\ last_alloc_hint = 0
    /\ faLock = FALSE /\ trackers = <<>> /\ afCall = AfIdle
    /\ InitMemVars /\ InitLockVars /\ InitFdVars /\ InitPipeVars /\ InitExtRest
    /\ tid \in {TidAllocator_new, TidAllocator_used}
    /\ last = [op |-> "none"]

NextTid ==
    \/ \E c \in TidCpus : AllocateCall(c)
    \/ \E c \in TidCpus : AllocateFetchAdd(c)
    \/ \E c \in TidCpus : AllocateReturn(c)

SpecTid == InitTidAllocator /\ [][NextTid]_vars

\* C29: every TID returned by allocate is at least 2, no TID is returned
\* twice, and a later fetch returns a larger value than an earlier one
C29_AtLeastTwoUniqueIncreasing ==
    \A i \in 1..Len(tid.handed) :
        /\ ~u32_lt(tid.handed[i], <<0, 2>>)
        /\ \A j \in (i + 1)..Len(tid.handed) :
             /\ tid.handed[i] # tid.handed[j]
             /\ u32_lt(tid.handed[i], tid.handed[j])

(***************************************************************************)
(* Specification of the inode locks: two CPUs call read_at, write_at and   *)
(* truncate on one regular file; a CPU inside a call keeps running.        *)
(***************************************************************************)
NextTml ==
    \/ \E c \in TmlCpus : \E offset \in 0..1 : \E len \in 0..MaxTmlSize : ReadAtCall(c, offset, len)
    \/ \E c \in TmlCpus : \E offset \in 0..1 : \E len \in 0..MaxTmlSize : WriteAtCall(c, offset, len)
    \/ \E c \in TmlCpus : \E new_size \in 0..MaxTmlSize : TruncateCall(c, new_size)
    \/ \E c \in TmlCpus : TmlStep(c)

SpecTml == InitMem /\ [][NextTml]_vars /\ \A c \in TmlCpus : WF_vars(TmlStep(c))

\* C30: as long as the kernel has not panicked, whenever a read_at, write_at
\* or truncate call is in progress on the inode, some call in progress can
\* take its next lock: no CPU holds one of the two locks while waiting for
\* the other in a cycle, so the calls complete
C30_CallsCanComplete ==
    (~tml.panicked /\ \E c \in TmlCpus : tml.calls[c].pc # "idle")
        => \E d \in TmlCpus : TmlCanStep(d)

\* C39: in every state of the frame allocator, between calls and inside
\* alloc_frames, allocated_count is the number of set bits of the bitmap and
\* no bit at an index >= total_frames is set
C39_CountIsSetBits ==
    /\ allocated_count = Cardinality(bitmap)
    /\ \A i \in bitmap : i < total_frames

\* frames have been allocated by a contiguous call that takes the last frame,
\* in the partially used last word, and a tracker has been dropped since
C39_Witness ==
    /\ last.op = "drop"
    /\ (total_frames - 1) \in bitmap
    /\ allocated_count >= 2
    /\ total_frames % WordBits # 0

\* C40: the number of bytes buffered in the pipe never exceeds its capacity
C40_LenWithinCapacity == BufLen(buffer) <= capacity

\* a set_pipe_size below the number of buffered bytes has just been refused
C40_Witness ==
    /\ last.op = "set_pipe_size"
    /\ last.len >= MIN_CAPACITY /\ last.len <= MAX_CAPACITY
    /\ last.len < BufLen(buffer)
    /\ BufLen(buffer) <= capacity

\* the data pages held by the inodes of the file system
RECURSIVE HeldPages(_)
HeldPages(n) ==
    IF n = 0 THEN 0
    ELSE SomeCount(tmInodes[n].data, 0, Len(tmInodes[n].data)) + HeldPages(n - 1)

\* C36: whenever no call is in progress, the charged page count equals the
\* number of data pages held by the inodes of the file system
C36_ChargedIsHeld == TmIdle => tmAllocated = HeldPages(TmpFiles)

\* C37: when write_at returns NoSpace, the file has the size it had at the
\* entry of the call and read_at returns the same byte as at the entry for
\* every position below that size
C37_FailedWriteChangesNothing ==
    (last.op = "write_at" /\ ~last.ok) =>
        /\ tmInodes[last.i].size = Len(last.pre)
        /\ read_at(tmInodes[last.i], 0, tmInodes[last.i].size) = last.pre

(***************************************************************************)
(* Specification of the fd table with two CPUs calling alloc, close,       *)
(* set_fd_flags, dup3 and clone_table                                      *)
(***************************************************************************)
NextFdc ==
    \/ \E c \in FdcCpus, f \in FdFiles : FdcAlloc(c, f)
    \/ \E c \in FdcCpus, fd \in 0..(MaxFds - 1) : FdcClose(c, fd)
    \/ \E c \in FdcCpus, fd \in 0..(MaxFds - 1), fl \in {0, CLOEXEC} : FdcSetFdFlags(c, fd, fl)
    \/ \E c \in FdcCpus, o \in 0..(MaxFds - 1), n \in 0..(MaxFds - 1), fl \in {0, CLOEXEC} : Dup3Get(c, o, n, fl)
    \/ \E c \in FdcCpus : Dup3Close(c)
    \/ \E c \in FdcCpus : Dup3Install(c)
    \/ \E c \in FdcCpus : CloneTableFiles(c)
    \/ \E c \in FdcCpus : CloneTableFlags(c)

SpecFdc == InitFd /\ [][NextFdc]_vars

\* C31: when dup3(old, new, flags) installs its file at new, the slot is
\* empty: no file that another caller obtained at new between dup3's close
\* and its install is overwritten
C31_Dup3ReplacesAtomically ==
    (last.op = "dup3" /\ last.ok) => last.replaced = NoFile

\* C32: the table returned by clone_table has a file vector and a flag vector
\* of equal length and is a table the source held at some instant of the call
C32_CloneIsSnapshot ==
    last.op = "clone_table" =>
        /\ Len(last.files) = Len(last.fd_flags)
        /\ last.fd_flags \in last.seen

(***************************************************************************)
(* Specification of the work queue: two kworker threads and one thread     *)
(* that schedules work; every thread keeps running.                        *)
(***************************************************************************)
NextWq ==
    \/ \E p \in WqCallers, kind \in {"plain", "again"} : ScheduleWorkCall(p, kind)
    \/ \E p \in WqCallers : WqStep(p)

SpecWq == InitMem /\ [][NextWq]_vars /\ \A p \in WqCallers : WF_vars(WqStep(p))

\* C33: no work item is executed twice, and no caller spins on the queue
\* lock while holding it itself (a wait that never ends); together with the
\* fairness of the threads this is what lets every scheduled item run once
C33_WorkRunsOnceLockIsFreed ==
    /\ \A i \in 1..MaxWqItems : wq.executed[i] <= 1
    /\ \A p \in WqCallers : wq.pc[p] \in {"schedule", "loop", "woken"} => wq.lock # p

(***************************************************************************)
(* Specification of the cuts of a file-backed mapping                      *)
(***************************************************************************)
FbaVpns == 1..(1 + MaxFbaPages)

NextFba ==
    \/ \E area \in fba.areas : \E s \in FbaVpns : \E e \in FbaVpns :
          s < e /\ FbaPartialUnmap(area, s, e)
    \/ \E area \in fba.areas : \E v \in FbaVpns : FbaSplitAt(area, v)
    \/ \E area \in fba.areas : \E s \in FbaVpns : \E e \in FbaVpns : \E perm \in {"r", "rw"} :
          s < e /\ FbaPartialChangePermission(area, s, e, perm)

SpecFba == InitMem /\ [][NextFba]_vars

\* C34: every page of every area that remains after partial_unmap, split_at
\* or partial_change_permission is paged in from and written back to the file
\* offset the mmap gave it
C34_PagesKeepFileOffset ==
    \A area \in fba.areas : \A vpn \in area.start..(area.end - 1) :
        file_offset(area, vpn) = mmap_file_offset(vpn)

(***************************************************************************)
(* Specification of fork on the memory space                               *)
(***************************************************************************)
NextFork ==
    \/ NextMem
    \/ CloneForFork

SpecFork == InitMem /\ [][NextFork]_vars

\* C35: clone_for_fork succeeds whenever the free frames suffice for a copy of
\* every frame of the user areas, and the areas of the child have the ranges,
\* area types, map types and permissions of the parent's
C35_ForkSucceeds ==
    (last.op = "clone_for_fork" /\ last.enough) => last.ok /\ last.child = last.parent

(***************************************************************************)
(* Specification of the directory used from two CPUs                       *)
(***************************************************************************)
NextDir ==
    \/ \E c \in DirCpus : \E name \in DirNames : DirCreate(c, name)
    \/ \E c \in DirCpus : \E name \in DirNames : DirMkdir(c, name)
    \/ \E c \in DirCpus : \E name \in DirNames :
          \E type \in {"CharDevice", "BlockDevice", "Fifo"} : DirMknod(c, name, type)
    \/ \E c \in DirCpus : \E name \in DirNames : DirUnlink(c, name)
    \/ \E c \in DirCpus : \E name \in DirNames : DirSymlinkCheck(c, name)
    \/ \E c \in DirCpus : \E nospace \in BOOLEAN : DirSymlinkWrite(c, nospace)
    \/ \E c \in DirCpus : DirSymlinkInsert(c)

SpecDir == InitMem /\ [][NextDir]_vars

\* C38: of the callers that make an entry with one name in one directory only
\* one gets Ok: every entry a caller was given Ok for, and that nobody has
\* unlinked, is still the inode the directory holds under that name
C38_CreatedEntryStays ==
    \A m \in dir.made : dir.children[m.name].ino = m.ino

====
